---- MODULE Spec2Model ----
(***************************************************************************)
(* Voice connection of serenity / songbird.                                *)
(*                                                                         *)
(* Two handshake implementations live in the repository and both are       *)
(* modelled:                                                               *)
(*   "songbird" : songbird/src/driver/connection/mod.rs                    *)
(*                (Connection::new, Connection::reconnect, init_cipher)    *)
(*   "serenity" : src/voice/connection.rs                                  *)
(*                (Connection::new, encryption_key)                        *)
(* The variable impl selects which of the two a behaviour runs.            *)
(*                                                                         *)
(* Option<T> is modelled as a sequence: None == <<>>, Some(x) == <<x>>.    *)
(* Byte strings are sequences of numbers in 0..255.                        *)
(***************************************************************************)
EXTENDS Integers, Sequences, FiniteSets, TLC

\* ------------------------------------------------------------------ bounds
\* Largest number of Hello/Ready/Resumed events one wait loop is fed.
MaxRx == 3
\* Largest number of None (Ping/Pong, "Continue") frames one wait loop is fed.
MaxNone == 1
\* Largest number of events fed to the session-description wait.
MaxKeyRx == 2
\* Largest number of reconnect calls in one behaviour.
MaxReconnects == 2
\* Largest number of mixer ticks in one behaviour.
MaxTicks == 2

\* Samples per channel of a frame in the model (960 in the code).
SamplesPerChannel == 2
\* Largest number of calls of cycle in one behaviour.
MaxCycles == 7
\* Largest number of things the environment of cycle does in one behaviour:
\* sources played, handles controlled, statuses queued, calls of cycle that
\* find a timer elapsed, sends that fail.
MaxEnv == 2
\* Largest number of messages put on the UDP send task's queue.
MaxUdpMsgs == 3
\* How far the clock of the UDP send task runs, in half keepalive gaps.
MaxNow == 4

\* --------------------------------------------------------------- constants
None == <<>>

Some(x) == <<x>>

CRYPTO_MODE == "xsalsa20_poly1305"

\* Length of a media key (xsalsa20poly1305 / secretbox key).
KEY_LEN == 32

\* IpDiscoveryPacket::const_packet_size(): 2 + 2 + 4 + 64 + 2.
IP_DISCOVERY_LEN == 74

\* IpDiscoveryPacket::minimum_packet_size(): the fixed-size fields only.
IP_DISCOVERY_MIN_LEN == 10

\* Size of the discovery request and of the receive buffer in serenity.
SV_REQUEST_LEN == 70

SV_RECV_LEN == 256

\* ------------------------------------------------------------ byte helpers
Zeros(n) == [i \in 1..n |-> 0]

U16BE(hi, lo) == hi * 256 + lo

U16LE(b0, b1) == b0 + b1 * 256

U16BEBytes(x) == <<(x \div 256) % 256, x % 256>>

U32BEBytes(x) == <<(x \div 16777216) % 256, (x \div 65536) % 256, (x \div 256) % 256, x % 256>>

\* A u32 that must wrap is kept as two 16-bit halves (TLC's integers are
\* 32-bit signed): the value is hi * 2^16 + lo.
U32(hi, lo) == [hi |-> hi, lo |-> lo]

\* u32::wrapping_add(x, n) for 0 <= n < 2^16.
WrappingAdd32(x, n) ==
    [hi |-> (x.hi + ((x.lo + n) \div 65536)) % 65536, lo |-> (x.lo + n) % 65536]

\* u16::wrapping_add(x, n).
WrappingAdd16(x, n) == (x + n) % 65536

\* s[from..to) with 0-based, half-open Rust slice indices.
Slice(s, from, to) == [i \in 1..(to - from) |-> s[from + i]]

\* Iterator::position(|b| b == 0): 0-based index of the first NUL, as Option.
PositionNul(s) ==
    IF \E i \in 1..Len(s) : s[i] = 0
    THEN Some((CHOOSE i \in 1..Len(s) : s[i] = 0 /\ \A j \in 1..(i - 1) : s[j] /= 0) - 1)
    ELSE None

\* ------------------------------------------------------- address text <-> IP
DOT == 46

IsDigit(b) == b \in 48..57

Dots(s) == {i \in 1..Len(s) : s[i] = DOT}

\* Value of one dotted-quad field, None when it is not 1..3 digits, has a
\* leading zero, or exceeds 255 (std::net::Ipv4Addr::from_str).
ParseOctet(p) ==
    IF Len(p) \notin 1..3 \/ (\E i \in 1..Len(p) : ~IsDigit(p[i])) THEN None
    ELSE IF Len(p) > 1 /\ p[1] = 48 THEN None
    ELSE LET v == IF Len(p) = 1 THEN p[1] - 48
                  ELSE IF Len(p) = 2 THEN (p[1] - 48) * 10 + (p[2] - 48)
                  ELSE (p[1] - 48) * 100 + (p[2] - 48) * 10 + (p[3] - 48)
         IN IF v > 255 THEN None ELSE Some(v)

\* IpAddr::from_str on the text s: Some(<<a, b, c, d>>) or None.  The address
\* texts of NatDatagrams hold no IPv6 text, so only the IPv4 grammar is modelled;
\* a byte string that is not UTF-8 is not an address either (same error).
ParseIp(s) ==
    IF Cardinality(Dots(s)) /= 3 THEN None
    ELSE LET d1 == CHOOSE i \in Dots(s) : \A j \in Dots(s) : i <= j
             d3 == CHOOSE i \in Dots(s) : \A j \in Dots(s) : i >= j
             d2 == CHOOSE i \in Dots(s) : i /= d1 /\ i /= d3
             o1 == ParseOctet(Slice(s, 0, d1 - 1))
             o2 == ParseOctet(Slice(s, d1, d2 - 1))
             o3 == ParseOctet(Slice(s, d2, d3 - 1))
             o4 == ParseOctet(Slice(s, d3, Len(s)))
         IN IF o1 = None \/ o2 = None \/ o3 = None \/ o4 = None THEN None
            ELSE Some(<<o1[1], o2[1], o3[1], o4[1]>>)

DecBytes(n) ==
    IF n < 10 THEN <<48 + n>>
    ELSE IF n < 100 THEN <<48 + (n \div 10), 48 + (n % 10)>>
    ELSE <<48 + (n \div 100), 48 + ((n \div 10) % 10), 48 + (n % 10)>>

\* Display / Serialize of an IPv4 IpAddr: the dotted-quad text.
FormatIp(a) ==
    DecBytes(a[1]) \o <<DOT>> \o DecBytes(a[2]) \o <<DOT>> \o DecBytes(a[3]) \o <<DOT>> \o DecBytes(a[4])

\* ---------------------------------------------------- inputs: the peer's data
\* "203.0.113.7"
Addr203 == <<50, 48, 51, 46, 48, 46, 49, 49, 51, 46, 55>>

\* "10.0.0.2"
Addr10 == <<49, 48, 46, 48, 46, 48, 46, 50>>

\* "x.y" : NUL-terminated but not an IP address
AddrBad == <<120, 46, 121>>

\* 64 bytes of "1": an address field without a NUL
AddrNoNul == [i \in 1..64 |-> 49]

Pad64(a) == a \o Zeros(64 - Len(a))

\* A datagram in the discovery layout of the wire protocol:
\* type u16 BE, length u16 BE, ssrc u32 BE, 64-byte address, port u16 BE.
MkDiscovery(type, length, ssrc, addr, port) ==
    U16BEBytes(type) \o U16BEBytes(length) \o U32BEBytes(ssrc) \o Pad64(addr) \o U16BEBytes(port)

\* A datagram in the layout serenity's comment describes: 4 bytes, then the
\* NUL-terminated address, the port little-endian in the last two bytes.
MkOldDiscovery(ssrc, addr, port) ==
    U32BEBytes(ssrc) \o Pad64(addr) \o <<port % 256, (port \div 256) % 256>>

\* The datagrams the peer may answer the discovery request with.
NatDatagrams ==
    { MkDiscovery(2, 70, 99, Addr203, 50000),
      MkDiscovery(2, 70, 99, Addr10, 1234),
      MkDiscovery(1, 70, 99, Addr203, 50000),
      MkDiscovery(2, 0, 99, Addr203, 50000),
      MkDiscovery(2, 70, 99, AddrBad, 50000),
      MkDiscovery(2, 70, 99, AddrNoNul, 50000),
      MkDiscovery(2, 70, 99, Addr203, 50000) \o <<1, 2, 3, 4, 5, 6>>,
      MkOldDiscovery(99, Addr203, 50000),
      MkOldDiscovery(65606, Addr10, 1234),
      <<0, 2, 0, 70>> }

\* Fields of a datagram as the wire protocol lays them out (used to state
\* properties; the handshakes use their own parsing below).
WireType(d) == U16BE(d[1], d[2])

WireLength(d) == U16BE(d[3], d[4])

WireAddress(d) == Slice(d, 8, 8 + PositionNul(Slice(d, 8, 72))[1])

WirePort(d) == U16BE(d[73], d[74])

\* Heartbeat intervals a Hello may carry.
HelloEvents == {[op |-> "Hello", heartbeat_interval |-> h] : h \in {40, 55}}

ModesGood == <<"xsalsa20_poly1305">>

ModesBad == <<"aead_aes256_gcm">>

ReadyEvents ==
    { [op |-> "Ready", ssrc |-> 99, ip |-> "10.0.0.1", port |-> 50000, modes |-> ModesGood],
      [op |-> "Ready", ssrc |-> 7, ip |-> "10.0.0.1", port |-> 50000, modes |-> ModesBad \o ModesGood],
      [op |-> "Ready", ssrc |-> 99, ip |-> "10.0.0.1", port |-> 50000, modes |-> ModesBad] }

Key0 == Zeros(KEY_LEN)

Key1 == [i \in 1..KEY_LEN |-> 1]

KeyShort == Zeros(KEY_LEN - 1)

SessionDescriptionEvents ==
    { [op |-> "SessionDescription", mode |-> CRYPTO_MODE, secret_key |-> Key0],
      [op |-> "SessionDescription", mode |-> CRYPTO_MODE, secret_key |-> Key1],
      [op |-> "SessionDescription", mode |-> CRYPTO_MODE, secret_key |-> KeyShort],
      [op |-> "SessionDescription", mode |-> "aead_aes256_gcm", secret_key |-> Key0] }

ResumedEvent == [op |-> "Resumed"]

OtherEvents ==
    { [op |-> "Speaking", ssrc |-> 5, user_id |-> 2, speaking |-> TRUE],
      [op |-> "HeartbeatAck", nonce |-> 1],
      [op |-> "ClientDisconnect", user_id |-> 2] }

Events == HelloEvents \cup ReadyEvents \cup SessionDescriptionEvents \cup {ResumedEvent} \cup OtherEvents

\* What recv_json yields: Ok(Some(event)), Ok(None) for a frame the layer
\* answered itself (Ping/Pong), or Err.
Frames == {[kind |-> "Event", ev |-> e] : e \in Events} \cup {[kind |-> "None"], [kind |-> "Err"]}

\* The frames fed to the wait for the session description: every session
\* description, and three events that the wait must skip.
KeyFrames ==
    {[kind |-> "Event", ev |-> e] : e \in SessionDescriptionEvents \cup
        {[op |-> "Hello", heartbeat_interval |-> 40], [op |-> "Speaking", ssrc |-> 5, user_id |-> 2, speaking |-> TRUE],
         [op |-> "HeartbeatAck", nonce |-> 1]}}
    \cup {[kind |-> "None"], [kind |-> "Err"]}

\* The frames fed to the Hello/Resumed wait of a resume.
ResumeFrames ==
    {[kind |-> "Event", ev |-> e] : e \in {[op |-> "Hello", heartbeat_interval |-> 55], ResumedEvent,
                                        [op |-> "HeartbeatAck", nonce |-> 1]}}
    \cup {[kind |-> "None"], [kind |-> "Err"]}

\* Endpoints as character sequences: "h:80", "h", and "" (not a URL host).
EndpointSet == {<<"h", ":", "8", "0">>, <<"h">>, <<>>}

\* ConnectionInfo handed over by the outer gateway (the endpoint is a variable).
Info == [guild_id |-> 1, user_id |-> 2, session_id |-> "s", token |-> "t"]

\* -------------------------------------------------------------------- state
VARIABLES
    impl,       \* "songbird" or "serenity": which Connection::new runs
    endpoint,   \* info.endpoint
    wsUrl,      \* Option<the Url the last generate_url returned>
    pc,         \* position of the handshake task
    err,        \* the Err the handshake returned, "" while there is none
    hello,      \* Option<Hello> of the wait loop
    ready,      \* Option<Ready> of the wait loop
    rxLog,      \* history: events the Hello/Ready wait received, in order
    noneCount,  \* history: None frames the current wait loop received
    keyLog,     \* history: events the session-description wait received
    wsLog,      \* history: messages sent on a WebSocket, [ws, msg], in order
    udpBound,   \* the UDP socket has been bound
    udpLog,     \* history: datagrams the handshake sent on the UDP socket
    natResp,    \* history: Option<datagram> the discovery recv returned
    auxQ,       \* interconnect.aux_packets: messages not yet taken
    mixQ,       \* interconnect.mixer: messages not yet taken
    session,    \* Option<the Connection the handshake returned>
    resume,     \* Connection::reconnect: its locals, its result, and history
    aux,        \* the Auxiliary loop: what it holds, how many messages it took
    mixer,      \* the Mixer: connection, counters, speaking state
    mixOut,     \* history: what the Mixer sent (media packets, Speaking), in order
    sources,    \* serenity: the Vec<LockedAudio> handed to cycle (handle ids)
    handles,    \* serenity: every Audio the application created, by handle id
    rx,         \* serenity: thread_items.rx, statuses the receive tasks queued
    sent,       \* history: what cycle handed to the WebSocket and the UDP socket
    cyc,        \* history: what the calls of cycle read, mixed and returned
    pkt,        \* one packet: what prep_packet built and what the inbound parse read
    udpTx       \* songbird: the UDP send task, its queue, the clock, and what it sent

hsVars == <<impl, endpoint, wsUrl, pc, err, hello, ready, rxLog, noneCount, keyLog, wsLog, udpBound, udpLog, natResp, session>>

qVars == <<auxQ, mixQ>>

taskVars == <<resume, aux, mixer, mixOut>>

cycVars == <<sources, handles, rx, sent, cyc, pkt, udpTx>>

vars == <<hsVars, qVars, taskVars, cycVars>>

\* ------------------------------------------------ songbird: Connection::new
\* generate_url: the endpoint after the ":80" suffix is stripped.
SbTruncate(e) ==
    IF Len(e) >= 3 /\ SubSeq(e, Len(e) - 2, Len(e)) = <<":", "8", "0">>
    THEN SubSeq(e, 1, Len(e) - 3)
    ELSE e

\* The value of a string of decimal digits.
DigitChars == <<"0", "1", "2", "3", "4", "5", "6", "7", "8", "9">>

IsDigitChar(c) == \E d \in 1..10 : DigitChars[d] = c

RECURSIVE DecimalValue(_)
DecimalValue(str) ==
    IF str = <<>> THEN 0
    ELSE DecimalValue(SubSeq(str, 1, Len(str) - 1)) * 10
         + (CHOOSE d \in 1..10 : DigitChars[d] = str[Len(str)]) - 1

\* Url::parse("wss://{endpoint}/?v=N") succeeds: the endpoint is host or
\* host:port, the host is not empty and holds no space, the port is empty or
\* decimal digits of a value that fits a u16 (the endpoints of EndpointSet and
\* EndpointStrings, whose hosts are letters and zeros, exercise no other URL
\* rule).
UrlParses(e) ==
    LET colons == {i \in 1..Len(e) : e[i] = ":"}
        split == IF colons = {} THEN Len(e) + 1 ELSE CHOOSE i \in colons : \A j \in colons : i <= j
        host == SubSeq(e, 1, split - 1)
        port == SubSeq(e, split + 1, Len(e))
    IN /\ host /= <<>> /\ \A i \in 1..Len(host) : host[i] /= " "
       /\ \A i \in 1..Len(port) : IsDigitChar(port[i])
       /\ Len(port) <= 9 /\ DecimalValue(port) <= 65535

\* VOICE_GATEWAY_VERSION, as it is formatted into the URL.
VOICE_GATEWAY_VERSION == <<"V">>

\* format!("wss://{}/?v={}", endpoint, VOICE_GATEWAY_VERSION)
WssUrl(e) == <<"w", "s", "s", ":", "/", "/">> \o e \o <<"/", "?", "v", "=">> \o VOICE_GATEWAY_VERSION

\* generate_url with every trailing ":80" stripped.
sb_generate_url_StripAll(e) ==
    LET RECURSIVE Strip(_)
        Strip(x) == IF SbTruncate(x) = x THEN x ELSE Strip(SbTruncate(x))
    IN [endpoint |-> Strip(e),
        url |-> IF UrlParses(Strip(e)) THEN Some(WssUrl(Strip(e))) ELSE None]

\* generate_url (280-289): the endpoint is truncated in place and the URL is
\* parsed; None stands for Err(EndpointUrl).
sb_generate_url(e) ==
    [endpoint |-> SbTruncate(e),
     url |-> IF UrlParses(SbTruncate(e)) THEN Some(WssUrl(SbTruncate(e))) ELSE None]

\* Variant: the comparison is negated.
has_valid_mode_sb_Negated(modes, mode) == \E i \in 1..Len(modes) : modes[i] /= mode

has_valid_mode_sb(modes, mode) == \E i \in 1..Len(modes) : modes[i] = mode

SendWs(log, id, m) == Append(log, [ws |-> id, msg |-> m])

SbIdentify ==
    [op |-> "Identify", server_id |-> Info.guild_id, session_id |-> Info.session_id,
     token |-> Info.token, user_id |-> Info.user_id]

\* Lines 50-67: build the URL, open the WebSocket, send Identify.
SbNewIdentify ==
    /\ impl = "songbird" /\ pc = "init"
    /\ endpoint' = SbTruncate(endpoint)
    /\ wsUrl' = sb_generate_url(endpoint).url
    /\ \/ /\ ~UrlParses(SbTruncate(endpoint))
          /\ pc' = "failed" /\ err' = "EndpointUrl" /\ UNCHANGED wsLog
       \/ /\ UrlParses(SbTruncate(endpoint))
          /\ \E io \in {"ok", "connect_err", "send_err"} :
                IF io = "ok"
                THEN pc' = "hs_wait" /\ err' = "" /\ wsLog' = SendWs(wsLog, 1, SbIdentify)
                ELSE pc' = "failed" /\ err' = "Ws" /\ UNCHANGED wsLog
    /\ UNCHANGED <<impl, hello, ready, rxLog, noneCount, keyLog, udpBound, udpLog, natResp, session, qVars, taskVars, cycVars>>

\* Variant: the Hello arm stores but never breaks.
SbHandshakeStep_NoBreakOnHello(h, r, ev) ==
    IF ev.op = "Ready"
    THEN [hello |-> h, ready |-> Some(ev), next |-> IF h /= None THEN "break" ELSE "continue"]
    ELSE IF ev.op = "Hello"
    THEN [hello |-> Some(ev), ready |-> r, next |-> "continue"]
    ELSE [hello |-> h, ready |-> r, next |-> "ExpectedHandshake"]

\* Lines 75-93: one iteration of the Hello/Ready loop on event ev.
\* Result: the two accumulators and what the loop does next.
SbHandshakeStep(h, r, ev) ==
    IF ev.op = "Ready"
    THEN [hello |-> h, ready |-> Some(ev), next |-> IF h /= None THEN "break" ELSE "continue"]
    ELSE IF ev.op = "Hello"
    THEN [hello |-> Some(ev), ready |-> r, next |-> IF r /= None THEN "break" ELSE "continue"]
    ELSE [hello |-> h, ready |-> r, next |-> "ExpectedHandshake"]

\* Lines 69-101: receive one frame in the Hello/Ready loop; when the loop
\* breaks, the crypto mode check follows before the next suspension.
SbNewRecvHandshake ==
    /\ impl = "songbird" /\ pc = "hs_wait"
    /\ \E f \in Frames :
        \/ /\ f.kind = "Err"
           /\ pc' = "failed" /\ err' = "Ws"
           /\ UNCHANGED <<hello, ready, rxLog, noneCount>>
        \/ /\ f.kind = "None" /\ noneCount < MaxNone
           /\ noneCount' = noneCount + 1
           /\ UNCHANGED <<pc, err, hello, ready, rxLog>>
        \/ /\ f.kind = "Event" /\ Len(rxLog) < MaxRx
           /\ LET st == SbHandshakeStep(hello, ready, f.ev) IN
                /\ hello' = st.hello /\ ready' = st.ready
                /\ rxLog' = Append(rxLog, f.ev)
                /\ UNCHANGED noneCount
                /\ IF st.next = "continue" THEN UNCHANGED <<pc, err>>
                   ELSE IF st.next = "ExpectedHandshake"
                   THEN pc' = "failed" /\ err' = "ExpectedHandshake"
                   ELSE IF ~has_valid_mode_sb(st.ready[1].modes, CRYPTO_MODE)
                   THEN pc' = "failed" /\ err' = "CryptoModeUnavailable"
                   ELSE pc' = "udp_bind" /\ UNCHANGED err
    /\ UNCHANGED <<impl, endpoint, wsUrl, keyLog, wsLog, udpBound, udpLog, natResp, session, qVars, taskVars, cycVars>>

\* Lines 107-117: the discovery request: type Request, length 70, the ssrc.
SbDiscoveryRequest(ssrc) ==
    U16BEBytes(1) \o U16BEBytes(70) \o U32BEBytes(ssrc) \o Zeros(IP_DISCOVERY_LEN - 8)

\* Lines 103-119: bind and connect the UDP socket, send the discovery request.
SbNewDiscover ==
    /\ impl = "songbird" /\ pc = "udp_bind"
    /\ \E io \in {"ok", "bind_err", "send_err"} :
        /\ udpBound' = (io /= "bind_err")
        /\ IF io = "ok"
           THEN pc' = "nat_wait" /\ UNCHANGED err
                /\ udpLog' = Append(udpLog, SbDiscoveryRequest(ready[1].ssrc))
           ELSE pc' = "failed" /\ err' = "Io" /\ UNCHANGED udpLog
    /\ UNCHANGED <<impl, endpoint, wsUrl, hello, ready, rxLog, noneCount, keyLog, wsLog, natResp, session, qVars, taskVars, cycVars>>

Min(a, b) == IF a < b THEN a ELSE b

\* udp.recv_from(&mut buf): the datagram d lands at the front of buf, cut off
\* at the buffer's size; the bytes behind it keep what buf held.
RecvInto(buf, d) ==
    [len |-> Min(Len(d), Len(buf)),
     buf |-> [i \in 1..Len(buf) |-> IF i <= Len(d) THEN d[i] ELSE buf[i]]]

\* Lines 121-152: what the handshake extracts from the bytes received.
\* buf is the request buffer after recv_from wrote len bytes into it.
SbParseDiscovery(buf, len) ==
    LET view == Slice(buf, 0, len) IN
    IF Len(view) < IP_DISCOVERY_MIN_LEN THEN [err |-> "IllegalDiscoveryResponse"]
    ELSE IF U16BE(view[1], view[2]) /= 2 THEN [err |-> "IllegalDiscoveryResponse"]
    ELSE LET address_raw == Slice(view, 8, Min(8 + 64, Len(view)))
             nul_byte_index == PositionNul(address_raw)
         IN IF nul_byte_index = None THEN [err |-> "IllegalIp"]
            ELSE LET address == ParseIp(Slice(address_raw, 0, nul_byte_index[1])) IN
                 IF address = None THEN [err |-> "IllegalIp"]
                 ELSE IF Len(view) < IP_DISCOVERY_LEN THEN [err |-> "Panic"]
                 ELSE [err |-> "", address |-> address[1], port |-> U16BE(view[73], view[74])]

SbSelectProtocol(address, port) ==
    [op |-> "SelectProtocol", protocol |-> "udp", address |-> FormatIp(address),
     mode |-> CRYPTO_MODE, port |-> port]

\* Lines 121-152: receive the discovery response and send SelectProtocol.
SbNewRecvDiscovery ==
    /\ impl = "songbird" /\ pc = "nat_wait"
    /\ \/ /\ pc' = "failed" /\ err' = "Io" /\ UNCHANGED <<natResp, wsLog>>
       \/ \E d \in NatDatagrams :
            LET rcv == RecvInto(udpLog[Len(udpLog)], d)
                res == SbParseDiscovery(rcv.buf, rcv.len)
            IN /\ natResp' = Some(d)
               /\ IF res.err /= ""
                  THEN pc' = "failed" /\ err' = res.err /\ UNCHANGED wsLog
                  ELSE \E io \in {"ok", "send_err"} :
                         IF io = "ok"
                         THEN /\ wsLog' = SendWs(wsLog, 1, SbSelectProtocol(res.address, res.port))
                              /\ pc' = "key_wait" /\ UNCHANGED err
                         ELSE pc' = "failed" /\ err' = "Ws" /\ UNCHANGED wsLog
    /\ UNCHANGED <<impl, endpoint, wsUrl, hello, ready, rxLog, noneCount, keyLog, udpBound, udpLog, session, qVars, taskVars, cycVars>>

\* Variant: the mode of the session description is not checked.
SbInitCipherStep_NoModeCheck(ev) ==
    IF ev.op = "SessionDescription"
    THEN IF Len(ev.secret_key) /= KEY_LEN THEN [next |-> "Crypto"]
         ELSE [next |-> "return", cipher |-> ev.secret_key]
    ELSE [next |-> "continue"]

\* Lines 299-315: one iteration of init_cipher's loop on event ev.
SbInitCipherStep(ev) ==
    IF ev.op = "SessionDescription"
    THEN IF ev.mode /= CRYPTO_MODE THEN [next |-> "CryptoModeInvalid"]
         ELSE IF Len(ev.secret_key) /= KEY_LEN THEN [next |-> "Crypto"]
         ELSE [next |-> "return", cipher |-> ev.secret_key]
    ELSE [next |-> "continue"]

\* Lines 198-209: the messages handed to the Auxiliary loop, in send order.
SbAuxMessages(cipher, h, r) ==
    << [tag |-> "UdpCipher", cipher |-> cipher],
       [tag |-> "SetKeepalive", interval |-> h.heartbeat_interval],
       [tag |-> "SetSsrc", ssrc |-> r.ssrc],
       [tag |-> "Udp", udp_rx |-> 1],
       [tag |-> "Ws", ws |-> 1] >>

SbMixerMessages(cipher, r) == << [tag |-> "SetConn", cipher |-> cipher, udp |-> 1, ssrc |-> r.ssrc] >>

\* Lines 154-214 with init_cipher (291-317): wait for the session description,
\* then hand the connection to the Auxiliary loop and to the Mixer.
SbNewInitCipher ==
    /\ impl = "songbird" /\ pc = "key_wait"
    /\ \E f \in KeyFrames :
        \/ /\ f.kind = "Err"
           /\ pc' = "failed" /\ err' = "Ws"
           /\ UNCHANGED <<keyLog, noneCount, session, qVars>>
        \/ /\ f.kind = "None" /\ noneCount < 2 * MaxNone
           /\ noneCount' = noneCount + 1
           /\ UNCHANGED <<pc, err, keyLog, session, qVars>>
        \/ /\ f.kind = "Event" /\ Len(keyLog) < MaxKeyRx
           /\ keyLog' = Append(keyLog, f.ev)
           /\ UNCHANGED noneCount
           /\ LET st == SbInitCipherStep(f.ev) IN
                IF st.next = "continue" THEN UNCHANGED <<pc, err, session, qVars>>
                ELSE IF st.next /= "return"
                THEN pc' = "failed" /\ err' = st.next /\ UNCHANGED <<session, qVars>>
                ELSE /\ pc' = "done" /\ UNCHANGED err
                     /\ auxQ' = auxQ \o SbAuxMessages(st.cipher, hello[1], ready[1])
                     /\ mixQ' = mixQ \o SbMixerMessages(st.cipher, ready[1])
                     /\ session' = Some([info |-> Info, endpoint |-> endpoint])
    /\ UNCHANGED <<impl, endpoint, wsUrl, hello, ready, rxLog, wsLog, udpBound, udpLog, natResp, taskVars, cycVars>>

\* ------------------------------------------------ serenity: Connection::new
SvTruncate(e) ==
    IF Len(e) >= 3 /\ SubSeq(e, Len(e) - 2, Len(e)) = <<":", "8", "0">>
    THEN SubSeq(e, 1, Len(e) - 3)
    ELSE e

\* generate_url (660-669).
sv_generate_url(e) ==
    [endpoint |-> SvTruncate(e),
     url |-> IF UrlParses(SvTruncate(e)) THEN Some(WssUrl(SvTruncate(e))) ELSE None]

has_valid_mode_sv(modes) == \E i \in 1..Len(modes) : modes[i] = CRYPTO_MODE

SvIdentify ==
    [op |-> "Identify", server_id |-> Info.guild_id, session_id |-> Info.session_id,
     token |-> Info.token, user_id |-> Info.user_id]

\* Lines 178-186: build the URL, open the WebSocket, send Identify.
SvNewIdentify ==
    /\ impl = "serenity" /\ pc = "init"
    /\ endpoint' = SvTruncate(endpoint)
    /\ wsUrl' = sv_generate_url(endpoint).url
    /\ \/ /\ ~UrlParses(SvTruncate(endpoint))
          /\ pc' = "failed" /\ err' = "EndpointUrl" /\ UNCHANGED wsLog
       \/ /\ UrlParses(SvTruncate(endpoint))
          /\ \E io \in {"ok", "connect_err", "send_err"} :
                IF io = "ok"
                THEN pc' = "hs_wait" /\ err' = "" /\ wsLog' = SendWs(wsLog, 1, SvIdentify)
                ELSE pc' = "failed" /\ err' = "Ws" /\ UNCHANGED wsLog
    /\ UNCHANGED <<impl, hello, ready, rxLog, noneCount, keyLog, udpBound, udpLog, natResp, session, qVars, taskVars, cycVars>>

\* Variant: an unexpected event is logged and skipped.
SvHandshakeStep_IgnoreOther(h, r, ev) ==
    IF ev.op = "Ready"
    THEN [hello |-> h, ready |-> Some(ev), next |-> IF h /= None THEN "break" ELSE "continue"]
    ELSE IF ev.op = "Hello"
    THEN [hello |-> Some(ev), ready |-> r, next |-> IF r /= None THEN "break" ELSE "continue"]
    ELSE [hello |-> h, ready |-> r, next |-> "continue"]

\* Lines 200-220: one iteration of the Hello/Ready loop_fn on event ev.
SvHandshakeStep(h, r, ev) ==
    IF ev.op = "Ready"
    THEN [hello |-> h, ready |-> Some(ev), next |-> IF h /= None THEN "break" ELSE "continue"]
    ELSE IF ev.op = "Hello"
    THEN [hello |-> Some(ev), ready |-> r, next |-> IF r /= None THEN "break" ELSE "continue"]
    ELSE [hello |-> h, ready |-> r, next |-> "ExpectedHandshake"]

\* Lines 188-223: receive one frame in the Hello/Ready loop.
SvNewRecvHandshake ==
    /\ impl = "serenity" /\ pc = "hs_wait"
    /\ \E f \in Frames :
        \/ /\ f.kind = "Err"
           /\ pc' = "failed" /\ err' = "Ws"
           /\ UNCHANGED <<hello, ready, rxLog, noneCount>>
        \/ /\ f.kind = "None" /\ noneCount < MaxNone
           /\ noneCount' = noneCount + 1
           /\ UNCHANGED <<pc, err, hello, ready, rxLog>>
        \/ /\ f.kind = "Event" /\ Len(rxLog) < MaxRx
           /\ LET st == SvHandshakeStep(hello, ready, f.ev) IN
                /\ hello' = st.hello /\ ready' = st.ready
                /\ rxLog' = Append(rxLog, f.ev)
                /\ UNCHANGED noneCount
                /\ IF st.next = "continue" THEN UNCHANGED <<pc, err>>
                   ELSE IF st.next = "ExpectedHandshake"
                   THEN pc' = "failed" /\ err' = "ExpectedHandshake"
                   ELSE pc' = "hs_both" /\ UNCHANGED err
    /\ UNCHANGED <<impl, endpoint, wsUrl, keyLog, wsLog, udpBound, udpLog, natResp, session, qVars, taskVars, cycVars>>

\* Lines 104-113: ProgressingVoiceHandshake::finalize.
finalize(h, r) ==
    IF r = None \/ h = None THEN [err |-> "ExpectedHandshake"]
    ELSE [err |-> "", hello |-> h[1], ready |-> r[1]]

\* Lines 253-255: the 70-byte discovery request: the ssrc, then zeros.
SvDiscoveryRequest(ssrc) == U32BEBytes(ssrc) \o Zeros(SV_REQUEST_LEN - 4)

\* Lines 224-258: finalize, check the crypto mode, resolve the endpoint, bind
\* the UDP socket and send the discovery request.
SvNewDiscover ==
    /\ impl = "serenity" /\ pc = "hs_both"
    /\ LET fin == finalize(hello, ready) IN
        IF fin.err /= ""
        THEN pc' = "failed" /\ err' = fin.err /\ UNCHANGED <<udpBound, udpLog>>
        ELSE IF ~has_valid_mode_sv(fin.ready.modes)
        THEN pc' = "failed" /\ err' = "VoiceModeUnavailable" /\ UNCHANGED <<udpBound, udpLog>>
        ELSE \E io \in {"ok", "resolve_err", "resolve_empty", "bind_err", "send_err"} :
               /\ udpBound' = (io \in {"ok", "send_err"})
               /\ IF io = "ok"
                  THEN /\ pc' = "nat_wait" /\ UNCHANGED err
                       /\ udpLog' = Append(udpLog, SvDiscoveryRequest(fin.ready.ssrc))
                  ELSE /\ pc' = "failed" /\ UNCHANGED udpLog
                       /\ err' = IF io = "resolve_empty" THEN "HostnameResolve" ELSE "Io"
    /\ UNCHANGED <<impl, endpoint, wsUrl, hello, ready, rxLog, noneCount, keyLog, wsLog, natResp, session, qVars, taskVars, cycVars>>

\* Lines 260-271: what the handshake extracts after recv_dgram returned the
\* 256-byte buffer data holding a datagram of len bytes; bytes is the request
\* buffer that was sent.
SvParseDiscovery(bytes, data, len) ==
    LET index == PositionNul(Slice(data, 4, Len(data))) IN
    IF index = None THEN [err |-> "FindingByte"]
    ELSE LET pos == 4 + index[1]
             port_pos == len - 2
         IN IF pos > Len(bytes) THEN [err |-> "Panic"]
            ELSE IF port_pos < 0 \/ port_pos > Len(bytes) THEN [err |-> "Panic"]
            ELSE IF Len(bytes) - port_pos < 2 THEN [err |-> "Io"]
            ELSE [err |-> "", addr |-> Slice(bytes, 4, pos),
                  port |-> U16LE(bytes[port_pos + 1], bytes[port_pos + 2])]

\* payload::build_select_protocol(addr, port).
SvSelectProtocol(addr, port) ==
    [op |-> "SelectProtocol", protocol |-> "udp", address |-> addr,
     mode |-> CRYPTO_MODE, port |-> port]

\* Lines 258-279: receive the discovery response and send SelectProtocol.
SvNewRecvDiscovery ==
    /\ impl = "serenity" /\ pc = "nat_wait"
    /\ \/ /\ pc' = "failed" /\ err' = "Io" /\ UNCHANGED <<natResp, wsLog>>
       \/ \E d \in NatDatagrams :
            LET rcv == RecvInto(Zeros(SV_RECV_LEN), d)
                res == SvParseDiscovery(udpLog[Len(udpLog)], rcv.buf, rcv.len)
            IN /\ natResp' = Some(d)
               /\ IF res.err /= ""
                  THEN pc' = "failed" /\ err' = res.err /\ UNCHANGED wsLog
                  ELSE \E io \in {"ok", "send_err"} :
                         IF io = "ok"
                         THEN /\ wsLog' = SendWs(wsLog, 1, SvSelectProtocol(res.addr, res.port))
                              /\ pc' = "key_wait" /\ UNCHANGED err
                         ELSE pc' = "failed" /\ err' = "Ws" /\ UNCHANGED wsLog
    /\ UNCHANGED <<impl, endpoint, wsUrl, hello, ready, rxLog, noneCount, keyLog, udpBound, udpLog, session, qVars, taskVars, cycVars>>

\* Lines 682-702: one iteration of encryption_key's loop_fn on event ev.
SvEncryptionKeyStep(ev) ==
    IF ev.op = "SessionDescription"
    THEN IF ev.mode /= CRYPTO_MODE THEN [next |-> "VoiceModeInvalid"]
         ELSE IF Len(ev.secret_key) /= KEY_LEN THEN [next |-> "KeyGen"]
         ELSE [next |-> "return", key |-> ev.secret_key]
    ELSE [next |-> "continue"]

\* Lines 293-334: the Connection the handshake resolves to.
SvConnection(h, r, key) ==
    [ssrc |-> r.ssrc, key |-> key, sequence |-> 0, timestamp |-> U32(0, 0),
     audio_timer |-> 1000 * 60 * 4,
     keepalive_timer |-> (h.heartbeat_interval * 3) \div 4,
     encoder_stereo |-> FALSE, encoder_channels |-> 2,
     last_heartbeat_nonce |-> None,
     silence_frames |-> 100, speaking |-> FALSE, user_id |-> Info.user_id]

\* Lines 284-335 with encryption_key (671-707): wait for the session
\* description, then build the Connection.
SvNewEncryptionKey ==
    /\ impl = "serenity" /\ pc = "key_wait"
    /\ \E f \in KeyFrames :
        \/ /\ f.kind = "Err"
           /\ pc' = "failed" /\ err' = "Ws"
           /\ UNCHANGED <<keyLog, noneCount, session>>
        \/ /\ f.kind = "None" /\ noneCount < 2 * MaxNone
           /\ noneCount' = noneCount + 1
           /\ UNCHANGED <<pc, err, keyLog, session>>
        \/ /\ f.kind = "Event" /\ Len(keyLog) < MaxKeyRx
           /\ keyLog' = Append(keyLog, f.ev)
           /\ UNCHANGED noneCount
           /\ LET st == SvEncryptionKeyStep(f.ev) IN
                IF st.next = "continue" THEN UNCHANGED <<pc, err, session>>
                ELSE IF st.next /= "return"
                THEN pc' = "failed" /\ err' = st.next /\ UNCHANGED session
                ELSE /\ pc' = "done" /\ UNCHANGED err
                     /\ session' = Some(SvConnection(hello[1], ready[1], st.key))
    /\ UNCHANGED <<impl, endpoint, wsUrl, hello, ready, rxLog, wsLog, udpBound, udpLog, natResp, qVars, taskVars, cycVars>>

\* ----------------------------------------------- serenity: Connection::cycle
\* A frame is 960 samples per channel in the code; the model keeps the two
\* frame sizes in the same ratio with SamplesPerChannel samples per channel.
MONO_LEN == SamplesPerChannel

STEREO_LEN == 2 * SamplesPerChannel

\* Duration::from_millis(20) of Audio::step_frame.
FRAME_MS == 20

\* The 3-byte Opus silence frame of line 553.
SILENCE_FRAME == <<248, 255, 254>>

\* Volumes are f32 in the code; the model writes a volume as a number of
\* halves (2 is 1.0, 1 is 0.5) and a mixed sample as sample * halves, i.e. in
\* units of 1 / (2 * 32768).
VOL_ONE == 2

\* SoftClip::apply, as far as the model needs it: values are brought into
\* [-1.0, 1.0] (in the units above) and values inside are kept.
CLIP_MAX == VOL_ONE * 32768

SoftClip(mix) ==
    [i \in 1..Len(mix) |-> IF mix[i] > CLIP_MAX THEN CLIP_MAX
                           ELSE IF mix[i] < -CLIP_MAX THEN -CLIP_MAX ELSE mix[i]]

\* Line 355 / 356: the zeroed scratch and mix buffers a call starts with.
ZeroBuffer == [i \in 1..STEREO_LEN |-> 0]

\* Audio::new (audio.rs 87-96) around a source; kind, stereo and script
\* describe the source: script is what its successive frame reads return.
NewAudio(kind, stereo, script) ==
    [playing |-> TRUE, volume |-> VOL_ONE, finished |-> FALSE, position |-> 0,
     position_modified |-> FALSE, kind |-> kind, stereo |-> stereo, script |-> script,
     frames |-> 0, seeked |-> FALSE]

\* Audio::step_frame (audio.rs 138-141).
step_frame(aud) ==
    [aud EXCEPT !.position = @ + FRAME_MS, !.position_modified = FALSE]

\* What a frame read returns: None, or Some(n) with n samples written
\* (read_pcm_frame: the samples are s, s + 1, ...) or decoded and added to the
\* mix (an Opus source: every sample is s).
ReadNone == [some |-> FALSE, n |-> 0, s |-> 0]

ReadSome(n, s) == [some |-> TRUE, n |-> n, s |-> s]

\* The next read of a handle's source; a source that ran out of script has
\* reached the end of its stream.
NextRead(aud) == IF aud.script = <<>> THEN ReadNone ELSE Head(aud.script)

\* combine_audio without the halving of the index for a mono source.
combine_audio_NoHalving(raw_buffer, float_buffer, true_stereo, volume) ==
    [i \in 1..STEREO_LEN |-> float_buffer[i] + raw_buffer[i] * volume]

\* combine_audio (645-658): every index of the mix gets the scratch sample at
\* i (stereo) or i / 2 (mono), times the volume; indexes are 0-based there.
combine_audio(raw_buffer, float_buffer, true_stereo, volume) ==
    [i \in 1..STEREO_LEN |->
        LET sample_index == IF true_stereo THEN i - 1 ELSE (i - 1) \div 2
        IN float_buffer[i] + raw_buffer[sample_index + 1] * volume]

\* The sample at 0-based index j of the frame a PCM read returned.
SampleAt(rd, j) == rd.s + j

\* read_pcm_frame writes its n samples at the start of the slice it is given.
WritePcm(buffer, rd) ==
    [i \in 1..STEREO_LEN |-> IF rd.some /\ i <= rd.n THEN SampleAt(rd, i - 1) ELSE buffer[i]]

\* decode_and_add_opus_frame adds the decoded frame, times the volume, to the
\* mix buffer it is given.
AddOpus(float_buffer, rd, volume) ==
    [i \in 1..STEREO_LEN |-> IF rd.some THEN float_buffer[i] + rd.s * volume ELSE float_buffer[i]]

\* ------------------------------------------------- voice packets on the wire
HEADER_LEN == 12

NONCE_LEN == 24

\* write_u32::<BigEndian> of a u32 kept as halves.
U32HalvesBytes(t) == U16BEBytes(t.hi) \o U16BEBytes(t.lo)

\* Header with the sequence written low byte first.
Header_LittleEndianSequence(sequence, timestamp, ssrc) ==
    <<128, 120, sequence % 256, sequence \div 256>> \o U32HalvesBytes(timestamp) \o U32BEBytes(ssrc)

\* Lines 589-593: the 12 header bytes prep_packet writes.
Header(sequence, timestamp, ssrc) ==
    <<128, 120>> \o U16BEBytes(sequence) \o U32HalvesBytes(timestamp) \o U32BEBytes(ssrc)

\* Lines 596-597 and 370-371: the nonce starts as 24 zero bytes and gets the
\* first HEADER_LEN bytes of the packet.
NonceFor(head) == [i \in 1..NONCE_LEN |-> IF i <= HEADER_LEN THEN head[i] ELSE 0]

\* secretbox::seal and secretbox::open: a box opens under the nonce and key it
\* was sealed with, and under no other.
Seal(m, nonce, key) == [m |-> m, nonce |-> nonce, key |-> key]

Open(box, nonce, key) == IF box.nonce = nonce /\ box.key = key THEN Some(box.m) ELSE None

\* Lines 588-617: the packet on the wire: the header, then the payload sealed
\* under the header's nonce.
SealPacket(sequence, timestamp, ssrc, key, payload) ==
    LET head == Header(sequence, timestamp, ssrc)
    IN [head |-> head, box |-> Seal(payload, NonceFor(head), key)]

\* read_u16 / read_u32::<BigEndian> at a 0-based offset.
ReadU16(bytes, at) == U16BE(bytes[at + 1], bytes[at + 2])

ReadU32Halves(bytes, at) == U32(ReadU16(bytes, at), ReadU16(bytes, at + 2))

ReadU32(bytes, at) == ReadU16(bytes, at) * 65536 + ReadU16(bytes, at + 2)

\* ParsePacket reading the sequence from the start of the packet.
ParsePacket_SequenceAtZero(packet, key) ==
    IF Len(packet.head) < HEADER_LEN THEN [read |-> FALSE]
    ELSE LET nonce == NonceFor(packet.head)
         IN [read |-> TRUE, sequence |-> ReadU16(packet.head, 0),
             timestamp |-> ReadU32Halves(packet.head, 4), ssrc |-> ReadU32(packet.head, 8),
             nonce |-> nonce, opened |-> Open(packet.box, nonce, key)]

\* Lines 364-374: what cycle reads from an inbound packet: sequence, timestamp
\* and ssrc from bytes 2-3, 4-7 and 8-11, the nonce from the first 12 bytes,
\* and the payload the box opens to. A packet shorter than the header cannot
\* be read.
ParsePacket(packet, key) ==
    IF Len(packet.head) < HEADER_LEN THEN [read |-> FALSE]
    ELSE LET nonce == NonceFor(packet.head)
         IN [read |-> TRUE, sequence |-> ReadU16(packet.head, 2),
             timestamp |-> ReadU32Halves(packet.head, 4), ssrc |-> ReadU32(packet.head, 8),
             nonce |-> nonce, opened |-> Open(packet.box, nonce, key)]

\* Lines 387-394: the for loop over header_extension_len elements, left of
\* them to go, at the 0-based offset: a zero byte is one element; any other
\* byte is followed by 1 + (byte >> 4) bytes. Indexing past the end of the
\* payload panics (-1).
RECURSIVE SkipExtensions(_, _, _)
SkipExtensions(decrypted, offset, left) ==
    IF left = 0 THEN offset
    ELSE IF offset >= Len(decrypted) THEN -1
    ELSE LET byte == decrypted[offset + 1]
         IN SkipExtensions(decrypted,
                           IF byte = 0 THEN offset + 1 ELSE offset + 1 + 1 + (byte \div 16),
                           left - 1)

\* Lines 396-398: while decrypted[offset] == 0 the offset moves on; the index
\* panics (-1) at the end of the payload.
RECURSIVE SkipPadding(_, _)
SkipPadding(decrypted, offset) ==
    IF offset < 0 \/ offset >= Len(decrypted) THEN -1
    ELSE IF decrypted[offset + 1] = 0 THEN SkipPadding(decrypted, offset + 1)
    ELSE offset

\* Lines 382-401: a non-empty decrypted payload that starts with 0xBE 0xDE
\* loses its extension block (split_off at the offset reached); any other
\* payload is left as it is. The result is the bytes handed to the decoder, or
\* the panic of an index past the end.
StripExtensions(decrypted) ==
    LET keep == [panic |-> FALSE, data |-> decrypted]
        panic == [panic |-> TRUE, data |-> <<>>]
    IN IF decrypted[1] /= 190 THEN keep
       ELSE IF Len(decrypted) < 2 THEN panic
       ELSE IF decrypted[2] /= 222 THEN keep
       ELSE IF Len(decrypted) < 4 THEN panic
       ELSE LET offset == SkipPadding(decrypted,
                                      SkipExtensions(decrypted, 4, ReadU16(decrypted, 2)))
            IN IF offset < 0 THEN panic
               ELSE [panic |-> FALSE, data |-> SubSeq(decrypted, offset + 1, Len(decrypted))]

\* Lines 364-412 for one packet: it cannot be read or its payload is not an
\* Opus frame ("error": the ? returns from cycle), it does not open under the
\* session key ("drop"), or it decodes ("voice"). A stereo frame decodes to
\* its samples, the 3-byte silence frame to a mono frame of zeros.
SvInbound(packet, key) ==
    LET p == ParsePacket(packet, key)
        none == [outcome |-> "error", sequence |-> 0, timestamp |-> U32(0, 0), ssrc |-> 0,
                 stereo |-> FALSE, pcm |-> <<>>]
    IN IF ~p.read THEN none
       ELSE IF p.opened = None THEN [none EXCEPT !.outcome = "drop"]
       ELSE LET payload == p.opened[1]
            IN IF payload.frame \notin {"encoded", "copied"} THEN none
               ELSE [outcome |-> "voice", sequence |-> p.sequence, timestamp |-> p.timestamp,
                     ssrc |-> p.ssrc,
                     stereo |-> payload.frame = "encoded" /\ payload.channels = 2,
                     pcm |-> IF payload.frame = "encoded" THEN payload.samples ELSE Zeros(MONO_LEN)]

\* Lines 360-433: the receive queue is drained into the receiver. A voice
\* packet that opens and decodes is written to the scratch buffer and
\* delivered; one that does not open is dropped; one that cannot be read or
\* decoded makes cycle return the error (the ? of lines 366-404) with the rest
\* of the queue left in place; a HeartbeatAck meets last_heartbeat_nonce.
\* st holds last_heartbeat_nonce, the scratch buffer, what was compared and
\* delivered so far, and at the end what is left of the queue.
RECURSIVE SvDrain(_, _)
SvDrain(q, st) ==
    IF q = <<>> THEN [st EXCEPT !.rest = <<>>]
    ELSE LET status == Head(q)
             in == IF status.tag = "Udp" THEN SvInbound(status.packet, st.key) ELSE [outcome |-> ""]
         IN
         IF in.outcome = "error"
         THEN [st EXCEPT !.rest = Tail(q), !.err = TRUE]
         ELSE SvDrain(Tail(q),
            IF status.tag = "Udp"
            THEN IF in.outcome = "voice"
                 THEN LET b == Len(in.pcm) IN
                      [st EXCEPT !.buffer = [i \in 1..STEREO_LEN |-> IF i <= b THEN in.pcm[i] ELSE @[i]],
                                 !.delivered = Append(@, [call |-> "voice_packet", ssrc |-> in.ssrc,
                                                          sequence |-> in.sequence,
                                                          timestamp |-> in.timestamp,
                                                          stereo |-> in.stereo, len |-> b])]
                 ELSE st
            ELSE IF status.ev.op = "Speaking"
            THEN [st EXCEPT !.delivered = Append(@, [call |-> "speaking_update", ssrc |-> status.ev.ssrc,
                                                     sequence |-> 0, timestamp |-> U32(0, 0),
                                                     stereo |-> FALSE, len |-> 0])]
            ELSE IF status.ev.op = "HeartbeatAck"
            THEN IF st.nonce /= None
                 THEN [st EXCEPT !.compared = Append(@, [ack |-> status.ev.nonce, expected |-> st.nonce[1]]),
                                 !.nonce = None]
                 ELSE st
            ELSE st)

\* Lines 360-440: with a receiver the queue is drained into it; with none the
\* queue is emptied and nothing else happens.
SvReceive(c, q, receiver) ==
    LET st0 == [nonce |-> c.last_heartbeat_nonce, key |-> c.key, buffer |-> ZeroBuffer, compared |-> <<>>,
                delivered |-> <<>>, rest |-> <<>>, err |-> FALSE]
    IN IF receiver THEN SvDrain(q, st0) ELSE st0

\* Lines 474-544: one pass over the sources from index i on. st holds the
\* source list, the handles, the scratch and mix buffers, len, the
\* encoder_stereo flag with the encoder's channels, and the reads made.
\* A walk that skips no source.
Skip_Never(aud) == FALSE

\* Line 479: a handle that is not playing is skipped.
Skip(aud) == ~aud.playing

\* An index that moves on after a removal as well.
NextIndex_AlwaysAdvance(i, finished) == i + 1

\* Lines 531-538: the index moves on unless the source at it was removed, in
\* which case the next source has moved to it.
NextIndex(i, finished) == IF finished THEN i ELSE i + 1

RECURSIVE SvWalk(_, _)
SvWalk(st, i) ==
    IF i > Len(st.sources) THEN st
    ELSE LET id == st.sources[i]
             aud == st.handles[id]
         IN IF Skip(aud) THEN SvWalk(st, i + 1)
            ELSE LET rd == NextRead(aud)
                     is_stereo == TRUE
                     swap == is_stereo /= st.encoder_stereo
                     buffer_len == IF aud.stereo THEN STEREO_LEN ELSE MONO_LEN
                     temp_len == IF aud.kind = "Opus" THEN 0
                                 ELSE IF rd.some THEN rd.n ELSE 0
                     mix1 == IF aud.kind = "Opus" THEN AddOpus(st.mix, rd, aud.volume) ELSE st.mix
                     buf1 == IF aud.kind = "Pcm" THEN WritePcm(st.buffer, rd) ELSE st.buffer
                     mix2 == combine_audio(buf1, mix1, aud.stereo, aud.volume)
                     finished == ~(temp_len > 0)
                     aud1 == [aud EXCEPT !.finished = finished,
                                         !.script = IF @ = <<>> THEN @ ELSE Tail(@),
                                         !.frames = IF rd.some THEN @ + 1 ELSE @]
                     aud2 == IF finished THEN aud1 ELSE step_frame(aud1)
                     st1 == [st EXCEPT
                               !.encoder_stereo = IF swap THEN is_stereo ELSE @,
                               !.encoder_channels = IF swap THEN (IF is_stereo THEN 2 ELSE 1) ELSE @,
                               !.buffer = buf1, !.mix = mix2,
                               !.len = IF temp_len > @ THEN temp_len ELSE @,
                               !.handles = [@ EXCEPT ![id] = aud2],
                               !.sources = IF finished
                                           THEN SubSeq(@, 1, i - 1) \o SubSeq(@, i + 1, Len(@))
                                           ELSE @,
                               !.reads = Append(@, [id |-> id, read |-> rd, before |-> st.mix,
                                                    after |-> mix2, buffer_len |-> buffer_len])]
                 IN SvWalk(st1, NextIndex(i, finished))

\* set_speaking (625-633): nothing when the flag already has the value;
\* otherwise the flag is set and then the message is sent.
set_speaking(c, speaking) ==
    IF c.speaking = speaking
    THEN [conn |-> c, send |-> <<>>]
    ELSE [conn |-> [c EXCEPT !.speaking = speaking],
          send |-> <<[to |-> "ws", msg |-> [op |-> "Speaking", speaking |-> speaking]]>>]

\* prep_packet (582-623): the packet is built from the current sequence,
\* timestamp and ssrc and sealed with the key; the payload is the given Opus
\* frame, or the encoding of the first buffer_len samples of the mix; then
\* sequence and timestamp advance. packet names what the packet carries, wire
\* is the bytes it is sent as.
prep_packet(c, buffer, opus_frame) ==
    LET buffer_len == IF c.encoder_stereo THEN STEREO_LEN ELSE MONO_LEN
        payload == IF opus_frame = <<>>
                   THEN [frame |-> "encoded", samples |-> SubSeq(buffer, 1, buffer_len),
                         channels |-> c.encoder_channels]
                   ELSE [frame |-> "copied", samples |-> opus_frame, channels |-> 0]
    IN [packet |-> [to |-> "udp", kind |-> "Media", sequence |-> c.sequence, timestamp |-> c.timestamp,
                    ssrc |-> c.ssrc, key |-> c.key, payload |-> payload],
        wire |-> SealPacket(c.sequence, c.timestamp, c.ssrc, c.key, payload),
        conn |-> [c EXCEPT !.sequence = WrappingAdd16(@, 1), !.timestamp = WrappingAdd32(@, 960)]]

\* Lines 443-579: what cycle does after the receive queue was handled with
\* the outcome got: the heartbeat and keepalive timers, the pass over the
\* sources, the silence countdown, the speaking flag and the media packet.
\* The inputs: hb and ka (did keepalive_timer / audio_timer elapse), nonce
\* (what random() returns), fail (which send of this call, if any, returns an
\* error). The result holds the Connection, sources and handles the call
\* leaves behind, what it sent, and what it returned.
SvCycleMix(c, srcs, hs, in, got) ==
    LET c1 == [c EXCEPT !.last_heartbeat_nonce = got.nonce]
        \* 443-447
        c2 == IF in.hb THEN [c1 EXCEPT !.last_heartbeat_nonce = Some(in.nonce)] ELSE c1
        hbFails == in.hb /\ in.fail = "heartbeat"
        out2 == IF in.hb /\ ~hbFails THEN <<[to |-> "ws", msg |-> [op |-> "Heartbeat", nonce |-> in.nonce]]>>
                ELSE <<>>
        \* 451-455
        kaFails == in.ka /\ in.fail = "keepalive"
        out3 == IF in.ka /\ ~kaFails THEN Append(out2, [to |-> "udp", kind |-> "Keepalive", ssrc |-> c.ssrc])
                ELSE out2
        \* 472-544
        w == SvWalk([sources |-> srcs, handles |-> hs, buffer |-> got.buffer, mix |-> ZeroBuffer,
                     len |-> 0, encoder_stereo |-> c2.encoder_stereo,
                     encoder_channels |-> c2.encoder_channels, reads |-> <<>>], 1)
        c4 == [c2 EXCEPT !.encoder_stereo = w.encoder_stereo, !.encoder_channels = w.encoder_channels]
        clipped == SoftClip(w.mix)
        \* 548-568
        silent == w.len = 0
        stop == silent /\ c4.silence_frames = 0
        c5 == IF silent
              THEN (IF c4.silence_frames > 0 THEN [c4 EXCEPT !.silence_frames = @ - 1] ELSE c4)
              ELSE [c4 EXCEPT !.silence_frames = 5]
        opus_frame == IF silent /\ ~stop THEN SILENCE_FRAME ELSE <<>>
        \* 556 or 570
        sp == set_speaking(c5, ~stop)
        spFails == sp.send /= <<>> /\ in.fail = "speaking"
        out6 == IF spFails THEN out3 ELSE out3 \o sp.send
        \* 572-576
        pp == prep_packet(sp.conn, clipped, opus_frame)
        udpFails == in.fail = "media"
        base == [sources |-> srcs, handles |-> hs, len |-> 0, reads |-> <<>>, mix |-> <<>>,
                 compared |-> got.compared, delivered |-> got.delivered, empty |-> FALSE,
                 rx |-> got.rest, spoke |-> None]
        walked == [base EXCEPT !.sources = w.sources, !.handles = w.handles, !.len = w.len,
                               !.reads = w.reads, !.mix = w.mix, !.empty = silent,
                               !.spoke = Some(~stop)]
    IN IF got.err THEN base @@ [conn |-> c1, out |-> <<>>, result |-> "Err", failed |-> FALSE]
       ELSE IF hbFails THEN base @@ [conn |-> c2, out |-> out2, result |-> "Err", failed |-> TRUE]
       ELSE IF kaFails THEN base @@ [conn |-> c2, out |-> out3, result |-> "Err", failed |-> TRUE]
       ELSE IF spFails THEN walked @@ [conn |-> sp.conn, out |-> out6, result |-> "Err", failed |-> TRUE]
       ELSE IF stop THEN walked @@ [conn |-> sp.conn, out |-> out6, result |-> "Ok", failed |-> FALSE]
       ELSE IF udpFails THEN walked @@ [conn |-> pp.conn, out |-> out6, result |-> "Err", failed |-> TRUE]
       ELSE walked @@ [conn |-> pp.conn, out |-> Append(out6, pp.packet), result |-> "Ok",
                       failed |-> FALSE]

\* The inputs of one call of cycle. A send can only be made to fail in a call
\* that gets to it.
CycleInputs ==
    [receiver : BOOLEAN, hb : BOOLEAN, ka : BOOLEAN, nonce : {1, 2},
     fail : {"none", "heartbeat", "keepalive", "speaking", "media"}]

\* The sources an application plays: the kind and channels of the source, the
\* volume the application gives the handle (in halves), whether it leaves the
\* handle playing or pauses it at once, and what the source's successive frame
\* reads return before its stream ends (a full stereo frame twice; a full mono
\* frame; one Opus frame; a stereo frame one sample long; a full stereo frame
\* of a handle paused before the next cycle).
SourceSet ==
    { [kind |-> "Pcm", stereo |-> TRUE, volume |-> VOL_ONE, playing |-> TRUE,
       script |-> <<ReadSome(STEREO_LEN, 3), ReadSome(STEREO_LEN, 3)>>],
      [kind |-> "Pcm", stereo |-> FALSE, volume |-> 1, playing |-> TRUE,
       script |-> <<ReadSome(MONO_LEN, 5)>>],
      [kind |-> "Opus", stereo |-> TRUE, volume |-> VOL_ONE, playing |-> TRUE,
       script |-> <<ReadSome(STEREO_LEN, 7)>>],
      [kind |-> "Pcm", stereo |-> TRUE, volume |-> VOL_ONE, playing |-> TRUE,
       script |-> <<ReadSome(1, 9)>>],
      [kind |-> "Pcm", stereo |-> TRUE, volume |-> VOL_ONE, playing |-> FALSE,
       script |-> <<ReadSome(STEREO_LEN, 3)>>] }

\* A stereo frame a peer encoded.
PeerFrame == [frame |-> "encoded", samples |-> [i \in 1..STEREO_LEN |-> 11], channels |-> 2]

\* The packets that arrive on the UDP socket: two voice packets of a peer
\* under the session key, the later one first; one sealed under another key;
\* one cut off inside the header; one whose payload is not an Opus frame.
InboundPackets ==
    { SealPacket(7, U32(1, 960), 5, Key1, PeerFrame),
      SealPacket(3, U32(0, 64576), 5, Key1, PeerFrame),
      SealPacket(8, U32(1, 1920), 5, Key0, PeerFrame),
      [SealPacket(9, U32(1, 2880), 5, Key1, PeerFrame) EXCEPT !.head = SubSeq(@, 1, 4)],
      SealPacket(10, U32(1, 3840), 5, Key1, [frame |-> "garbage", samples |-> <<1>>, channels |-> 0]) }

\* What the two receive tasks queue (717-774): a WebSocket event, or a packet
\* that arrived on the UDP socket.
StatusSet ==
    {[tag |-> "Websocket", ev |-> e] :
        e \in {[op |-> "HeartbeatAck", nonce |-> 2], [op |-> "Speaking", ssrc |-> 5, user_id |-> 2, speaking |-> TRUE]}}
    \cup {[tag |-> "Udp", packet |-> p] : p \in InboundPackets}

\* What is recorded of the calls of cycle: how many there were, what the last
\* one read, mixed, compared, delivered and returned; whether the behaviour
\* starts right after the handshake and whether a receiver is installed; the
\* argument of the last call's set_speaking, if it got there (spoke); and
\* how many calls in a row mixed and found no source contributing (idle) and
\* how long the log sent was after the last call in which one did (mark); how
\* many sends failed and how many things the environment did (MaxEnv); and
\* the nonce of the last Heartbeat sent, as long as no HeartbeatAck was taken
\* off the queue after it (pending).
CycIdle ==
    [ticks |-> 0, result |-> "", len |-> 0, reads |-> <<>>, mix |-> <<>>, empty |-> FALSE,
     compared |-> <<>>, delivered |-> <<>>, fresh |-> TRUE, receiver |-> FALSE,
     spoke |-> <<>>, idle |-> 0, mark |-> 0, fails |-> 0, env |-> 0, pending |-> <<>>]

\* The HeartbeatAck events among the statuses a call took off the queue q,
\* leaving rest.
AcksTaken(q, rest) ==
    SelectSeq(SubSeq(q, 1, Len(q) - Len(rest)),
              LAMBDA status : status.tag = "Websocket" /\ status.ev.op = "HeartbeatAck")

\* The Heartbeat messages among the messages out.
HeartbeatsIn(out) == SelectSeq(out, LAMBDA m : m.to = "ws" /\ m.msg.op = "Heartbeat")

\* What a call with these inputs takes from the environment's budget.
EnvCost(in) ==
    (IF in.hb THEN 1 ELSE 0) + (IF in.ka THEN 1 ELSE 0) + (IF in.fail /= "none" THEN 1 ELSE 0)

\* Lines 341-579: one call of cycle, made by the thread that owns the
\* Connection: the receive queue is handled (360-440), then the timers, the
\* sources and the packet (443-579).
SvCycle ==
    /\ impl = "serenity" /\ pc = "done" /\ cyc.ticks < MaxCycles
    /\ \E got \in {SvReceive(session[1], rx, cyc.receiver)}, in \in CycleInputs :
        /\ in.receiver = cyc.receiver
        /\ ~in.hb => in.nonce = 1
        /\ cyc.env + EnvCost(in) <= MaxEnv
        /\ \E res \in {SvCycleMix(session[1], sources, handles, in, got)} :
            /\ in.fail /= "none" => res.failed
            /\ session' = Some(res.conn)
            /\ sources' = res.sources /\ handles' = res.handles
            /\ rx' = res.rx
            /\ sent' = sent \o res.out
            /\ cyc' = [cyc EXCEPT !.ticks = @ + 1, !.result = res.result, !.len = res.len,
                                  !.reads = res.reads, !.mix = res.mix, !.empty = res.empty,
                                  !.compared = res.compared, !.delivered = res.delivered,
                                  !.spoke = res.spoke,
                                  !.idle = IF res.len > 0 THEN 0 ELSE IF res.empty THEN @ + 1 ELSE @,
                                  !.mark = IF res.len > 0 THEN Len(sent) + Len(res.out) ELSE @,
                                  !.fails = IF res.failed THEN @ + 1 ELSE @,
                                  !.env = @ + EnvCost(in),
                                  !.pending = IF HeartbeatsIn(res.out) /= <<>>
                                              THEN <<HeartbeatsIn(res.out)[1].msg.nonce>>
                                              ELSE IF AcksTaken(rx, res.rx) /= <<>> THEN <<>>
                                              ELSE @]
    /\ UNCHANGED <<impl, endpoint, wsUrl, pc, err, hello, ready, rxLog, noneCount, keyLog, wsLog, udpBound,
                   udpLog, natResp, qVars, taskVars, pkt, udpTx>>

\* Play(handle): the application wraps a source in an Audio, sets its volume
\* (Audio::volume, audio.rs 122-126), pauses it or not (Audio::pause, audio.rs
\* 112-116) and appends the handle to the source list.
SvPlay ==
    /\ impl = "serenity" /\ pc = "done" /\ cyc.env < MaxEnv
    /\ \E src \in SourceSet :
        /\ handles' = Append(handles, [NewAudio(src.kind, src.stereo, src.script)
                                          EXCEPT !.volume = src.volume,
                                                 !.playing = src.playing])
        /\ sources' = Append(sources, Len(handles) + 1)
    /\ cyc' = [cyc EXCEPT !.env = @ + 1]
    /\ UNCHANGED <<hsVars, qVars, taskVars, rx, sent, pkt, udpTx>>

\* audio.rs 98-133: the application's side of a handle: play, pause, volume
\* and position.
SvControl ==
    /\ impl = "serenity" /\ pc = "done" /\ cyc.env < MaxEnv
    /\ \E id \in 1..Len(handles) : \E what \in {"play", "pause", "volume", "position"} :
        /\ what = "play" => ~handles[id].playing
        /\ what = "pause" => handles[id].playing
        /\ handles' = [handles EXCEPT ![id] =
              IF what = "play" THEN [@ EXCEPT !.playing = TRUE]
              ELSE IF what = "pause" THEN [@ EXCEPT !.playing = FALSE]
              ELSE IF what = "volume" THEN [@ EXCEPT !.volume = 1]
              ELSE [@ EXCEPT !.position = 1000, !.position_modified = TRUE, !.seeked = TRUE]]
    /\ cyc' = [cyc EXCEPT !.env = @ + 1]
    /\ UNCHANGED <<hsVars, qVars, taskVars, sources, rx, sent, pkt, udpTx>>

\* spawn_receive_handlers (717-774): a receive task queues what it read.
SvStatus ==
    /\ impl = "serenity" /\ pc = "done" /\ cyc.env < MaxEnv
    /\ \E st \in StatusSet : rx' = Append(rx, st)
    /\ cyc' = [cyc EXCEPT !.env = @ + 1]
    /\ UNCHANGED <<hsVars, qVars, taskVars, sources, handles, sent, pkt, udpTx>>

\* One packet, followed from prep_packet to the inbound parse of a peer that
\* holds the same key: nothing yet.
PktIdle == [stage |-> "", packet |-> <<>>, parsed |-> <<>>, buffer |-> <<>>, opus_frame |-> <<>>]

\* prep_packet (582-623) is applied to a mix buffer and an Opus frame.
PktBuild ==
    /\ impl = "serenity" /\ pc = "done" /\ pkt.stage = "input"
    /\ \E pp \in {prep_packet(session[1], pkt.buffer, pkt.opus_frame)} :
        /\ session' = Some(pp.conn)
        /\ pkt' = [pkt EXCEPT !.stage = "built", !.packet = Some(pp.packet @@ [wire |-> pp.wire])]
    /\ UNCHANGED <<impl, endpoint, wsUrl, pc, err, hello, ready, rxLog, noneCount, keyLog, wsLog, udpBound,
                   udpLog, natResp, qVars, taskVars, sources, handles, rx, sent, cyc, udpTx>>

\* Lines 364-374 are applied to the packet as it is on the wire.
PktParse ==
    /\ impl = "serenity" /\ pc = "done" /\ pkt.stage = "built"
    /\ pkt' = [pkt EXCEPT !.stage = "parsed",
                          !.parsed = Some(ParsePacket(pkt.packet[1].wire, session[1].key))]
    /\ UNCHANGED <<hsVars, qVars, taskVars, sources, handles, rx, sent, cyc, udpTx>>

\* Lines 382-401 are applied to a decrypted payload.
PktStrip ==
    /\ impl = "serenity" /\ pc = "done" /\ pkt.stage = "payload"
    /\ pkt' = [pkt EXCEPT !.stage = "stripped", !.parsed = Some(StripExtensions(pkt.packet[1]))]
    /\ UNCHANGED <<hsVars, qVars, taskVars, sources, handles, rx, sent, cyc, udpTx>>

\* ------------------------------------------ the UDP send task (songbird)
\* UDP_KEEPALIVE_GAP, in the clock's units (half gaps).
UDP_KEEPALIVE_GAP == 2

\* Before Connection::new has spawned the task.
UdpTxIdle ==
    [running |-> FALSE, q |-> <<>>, closed |-> FALSE, now |-> 0, ka_time |-> 0, out |-> <<>>,
     enq |-> 0, before |-> None]

\* Lines 165-176: the queue is created empty, the task starts and sets
\* ka_time to now + UDP_KEEPALIVE_GAP. enq counts the packets queued so far
\* and before holds how many of them were queued before the Poison.
UdpTxStarted ==
    [UdpTxIdle EXCEPT !.running = TRUE, !.ka_time = UDP_KEEPALIVE_GAP]

\* Lines 204-207: the Mixer holds udp_msg_tx and queues a packet.
UdpTxSend ==
    /\ impl = "songbird" /\ ~udpTx.closed
    /\ udpTx.enq + Len(udpTx.before) < MaxUdpMsgs
    /\ udpTx' = [udpTx EXCEPT !.q = Append(@, [tag |-> "Packet", p |-> udpTx.enq + 1]),
                              !.enq = @ + 1]
    /\ UNCHANGED <<hsVars, qVars, taskVars, sources, handles, rx, sent, cyc, pkt>>

\* A Poison is queued.
UdpTxPoison ==
    /\ impl = "songbird" /\ ~udpTx.closed /\ udpTx.before = None
    /\ udpTx.enq + Len(udpTx.before) < MaxUdpMsgs
    /\ udpTx' = [udpTx EXCEPT !.q = Append(@, [tag |-> "Poison", p |-> 0]),
                              !.before = Some(udpTx.enq)]
    /\ UNCHANGED <<hsVars, qVars, taskVars, sources, handles, rx, sent, cyc, pkt>>

\* Every udp_msg_tx is dropped: the queue is closed.
UdpTxClose ==
    /\ impl = "songbird" /\ ~udpTx.closed
    /\ udpTx' = [udpTx EXCEPT !.closed = TRUE]
    /\ UNCHANGED <<hsVars, qVars, taskVars, sources, handles, rx, sent, cyc, pkt>>

\* Time passes.
UdpTxAdvance ==
    /\ impl = "songbird" /\ udpTx.now < MaxNow
    /\ udpTx' = [udpTx EXCEPT !.now = @ + 1]
    /\ UNCHANGED <<hsVars, qVars, taskVars, sources, handles, rx, sent, cyc, pkt>>

\* The task's loop with the Poison arm falling through to the next turn.
UdpTxStep_PoisonIgnored ==
    /\ impl = "songbird" /\ udpTx.running
    /\ IF udpTx.q /= <<>>
       THEN LET m == Head(udpTx.q) IN
            udpTx' = [udpTx EXCEPT !.q = Tail(@),
                         !.out = IF m.tag = "Packet"
                                 THEN Append(@, [kind |-> "Packet", p |-> m.p, at |-> udpTx.now])
                                 ELSE @]
       ELSE IF udpTx.closed
       THEN udpTx' = [udpTx EXCEPT !.running = FALSE]
       ELSE /\ udpTx.now >= udpTx.ka_time
            /\ udpTx' = [udpTx EXCEPT
                            !.out = Append(@, [kind |-> "Keepalive", p |-> 0, at |-> udpTx.now]),
                            !.ka_time = @ + UDP_KEEPALIVE_GAP]
    /\ UNCHANGED <<hsVars, qVars, taskVars, sources, handles, rx, sent, cyc, pkt>>

\* Lines 178-193: one turn of the task's loop. timeout_at polls the receive
\* first: a queued message is taken (a packet is handed to the socket, a
\* Poison ends the loop); an empty closed queue ends the loop; otherwise the
\* task waits, and once ka_time has come it sends the keepalive and moves
\* ka_time on by the gap.
UdpTxStep ==
    /\ impl = "songbird" /\ udpTx.running
    /\ IF udpTx.q /= <<>>
       THEN LET m == Head(udpTx.q) IN
            udpTx' = [udpTx EXCEPT !.q = Tail(@),
                         !.out = IF m.tag = "Packet"
                                 THEN Append(@, [kind |-> "Packet", p |-> m.p, at |-> udpTx.now])
                                 ELSE @,
                         !.running = m.tag = "Packet"]
       ELSE IF udpTx.closed
       THEN udpTx' = [udpTx EXCEPT !.running = FALSE]
       ELSE /\ udpTx.now >= udpTx.ka_time
            /\ udpTx' = [udpTx EXCEPT
                            !.out = Append(@, [kind |-> "Keepalive", p |-> 0, at |-> udpTx.now]),
                            !.ka_time = @ + UDP_KEEPALIVE_GAP]
    /\ UNCHANGED <<hsVars, qVars, taskVars, sources, handles, rx, sent, cyc, pkt>>

\* Lines 274-278: the Connection is dropped; drop logs and does nothing else.
SbDrop ==
    /\ impl = "songbird" /\ pc = "done" /\ session /= None
    /\ session' = None
    /\ UNCHANGED <<impl, endpoint, wsUrl, pc, err, hello, ready, rxLog, noneCount, keyLog, wsLog, udpBound,
                   udpLog, natResp, qVars, taskVars, cycVars>>

\* ------------------------------------- Auxiliary loop and Mixer (songbird)
\* The two tasks that take the interconnect messages are driver/tasks of
\* songbird; they are modelled from the specification (sections 4.D and 4.E).
AuxIdle ==
    [cipher |-> None, heartbeat_interval |-> None, ssrc |-> None, udp_rx |-> None,
     ws |-> None, taken |-> 0]

MixerIdle ==
    [conn |-> None, sequence |-> 0, rtp_timestamp |-> U32(0, 0), silence_frames_remaining |-> 5,
     speaking |-> FALSE, taken |-> 0, ticks |-> 0]

\* 4.D item 5: a control message replaces what the loop holds.
AuxApply(a, m) ==
    IF m.tag = "UdpCipher" THEN [a EXCEPT !.cipher = Some(m.cipher)]
    ELSE IF m.tag = "SetKeepalive" THEN [a EXCEPT !.heartbeat_interval = Some(m.interval)]
    ELSE IF m.tag = "SetSsrc" THEN [a EXCEPT !.ssrc = Some(m.ssrc)]
    ELSE IF m.tag = "Udp" THEN [a EXCEPT !.udp_rx = Some(m.udp_rx)]
    ELSE [a EXCEPT !.ws = Some(m.ws)]

\* The Auxiliary loop takes the next message of its queue.
AuxRecv ==
    /\ auxQ /= <<>>
    /\ aux' = [AuxApply(aux, Head(auxQ)) EXCEPT !.taken = @ + 1]
    /\ auxQ' = Tail(auxQ)
    /\ UNCHANGED <<hsVars, mixQ, resume, mixer, mixOut, cycVars>>

\* The Mixer takes the next message of its queue: SetConn(conn, ssrc).
MixerRecv ==
    /\ mixQ /= <<>>
    /\ mixer' = [mixer EXCEPT !.conn = Some([cipher |-> Head(mixQ).cipher, udp |-> Head(mixQ).udp,
                                             ssrc |-> Head(mixQ).ssrc]),
                              !.taken = @ + 1]
    /\ mixQ' = Tail(mixQ)
    /\ UNCHANGED <<hsVars, auxQ, resume, aux, mixOut, cycVars>>

\* 4.E "Speaking transitions": what set_speaking(b) sends.
SetSpeakingOut(m, b) ==
    IF m.speaking = b THEN <<>>
    ELSE <<[kind |-> "Speaking", speaking |-> b, ssrc |-> m.conn[1].ssrc, delay |-> 0]>>

\* 4.E per-tick algorithm; contributed: some source added samples this tick.
MixerTick ==
    /\ mixer.conn /= None /\ mixer.ticks < MaxTicks
    /\ \E contributed \in BOOLEAN :
        IF ~contributed /\ mixer.silence_frames_remaining = 0
        THEN /\ mixOut' = mixOut \o SetSpeakingOut(mixer, FALSE)
             /\ mixer' = [mixer EXCEPT !.speaking = FALSE, !.ticks = @ + 1]
        ELSE /\ mixOut' = mixOut \o SetSpeakingOut(mixer, TRUE) \o
                          <<[kind |-> "Media", sequence |-> mixer.sequence,
                             timestamp |-> mixer.rtp_timestamp, ssrc |-> mixer.conn[1].ssrc,
                             key |-> mixer.conn[1].cipher,
                             payload |-> IF contributed THEN "opus" ELSE "silence"]>>
             /\ mixer' = [mixer EXCEPT !.speaking = TRUE, !.ticks = @ + 1,
                            !.silence_frames_remaining = IF contributed THEN 5 ELSE @ - 1,
                            !.sequence = WrappingAdd16(@, 1),
                            !.rtp_timestamp = WrappingAdd32(@, 960)]
    /\ UNCHANGED <<hsVars, qVars, resume, aux, cycVars>>

\* ---------------------------------------------- songbird: Connection::reconnect
ResumeIdle ==
    [pc |-> "idle", hello |-> None, resumed |-> None, log |-> <<>>, none |-> 0,
     result |-> "", count |-> 0, ws |-> 1, aux0 |-> 0, mix0 |-> 0, media0 |-> 0]

SbResume == [op |-> "Resume", server_id |-> Info.guild_id, session_id |-> Info.session_id, token |-> Info.token]

\* Number of messages ever sent to the Auxiliary loop / to the Mixer.
AuxSent == aux.taken + Len(auxQ)

MixSent == mixer.taken + Len(mixQ)

MediaPackets == SelectSeq(mixOut, LAMBDA m : m.kind = "Media")

\* Lines 216-235: build the URL, open a new WebSocket, send Resume.
\* (history: count, ws, and the numbers of messages and packets at the call)
SbReconnectResume ==
    /\ impl = "songbird" /\ pc = "done" /\ resume.pc = "idle"
    /\ resume.count < MaxReconnects
    /\ endpoint' = SbTruncate(endpoint)
    /\ wsUrl' = sb_generate_url(endpoint).url
    /\ LET started == [resume EXCEPT !.hello = None, !.resumed = None, !.log = <<>>, !.none = 0,
                                     !.count = @ + 1, !.ws = @ + 1,
                                     !.aux0 = AuxSent, !.mix0 = MixSent,
                                     !.media0 = Len(MediaPackets)]
       IN \/ /\ ~UrlParses(SbTruncate(endpoint))
             /\ resume' = [started EXCEPT !.result = "EndpointUrl"]
             /\ UNCHANGED wsLog
          \/ /\ UrlParses(SbTruncate(endpoint))
             /\ \E io \in {"ok", "connect_err", "send_err"} :
                  IF io = "ok"
                  THEN /\ resume' = [started EXCEPT !.pc = "wait", !.result = ""]
                       /\ wsLog' = SendWs(wsLog, started.ws, SbResume)
                  ELSE /\ resume' = [started EXCEPT !.result = "Ws"]
                       /\ UNCHANGED wsLog
    /\ UNCHANGED <<impl, pc, err, hello, ready, rxLog, noneCount, keyLog, udpBound, udpLog, natResp,
                   session, qVars, aux, mixer, mixOut, cycVars>>

\* Variant: an unexpected event is logged and skipped.
SbResumeStep_IgnoreOther(h, r, ev) ==
    IF ev.op = "Resumed"
    THEN [hello |-> h, resumed |-> Some(TRUE), next |-> IF h /= None THEN "break" ELSE "continue"]
    ELSE IF ev.op = "Hello"
    THEN [hello |-> Some(ev), resumed |-> r, next |-> IF r /= None THEN "break" ELSE "continue"]
    ELSE [hello |-> h, resumed |-> r, next |-> "continue"]

\* Lines 243-261: one iteration of the Hello/Resumed loop on event ev.
SbResumeStep(h, r, ev) ==
    IF ev.op = "Resumed"
    THEN [hello |-> h, resumed |-> Some(TRUE), next |-> IF h /= None THEN "break" ELSE "continue"]
    ELSE IF ev.op = "Hello"
    THEN [hello |-> Some(ev), resumed |-> r, next |-> IF r /= None THEN "break" ELSE "continue"]
    ELSE [hello |-> h, resumed |-> r, next |-> "ExpectedHandshake"]

\* Variant: the resume hands over the WebSocket before the interval.
SbResumeAuxMessages_WsFirst(h, ws) ==
    << [tag |-> "Ws", ws |-> ws], [tag |-> "SetKeepalive", interval |-> h.heartbeat_interval] >>

\* Lines 266-267: the messages a finished resume hands to the Auxiliary loop.
SbResumeAuxMessages(h, ws) ==
    << [tag |-> "SetKeepalive", interval |-> h.heartbeat_interval], [tag |-> "Ws", ws |-> ws] >>

\* Lines 237-270: receive one frame in the Hello/Resumed loop; when the loop
\* breaks, hand the interval and the new WebSocket to the Auxiliary loop.
SbReconnectRecv ==
    /\ impl = "songbird" /\ resume.pc = "wait"
    /\ \E f \in ResumeFrames :
        \/ /\ f.kind = "Err"
           /\ resume' = [resume EXCEPT !.pc = "idle", !.result = "Ws"]
           /\ UNCHANGED qVars
        \/ /\ f.kind = "None" /\ resume.none < MaxNone
           /\ resume' = [resume EXCEPT !.none = @ + 1]
           /\ UNCHANGED qVars
        \/ /\ f.kind = "Event" /\ Len(resume.log) < MaxRx
           /\ LET st == SbResumeStep(resume.hello, resume.resumed, f.ev)
                  r1 == [resume EXCEPT !.hello = st.hello, !.resumed = st.resumed,
                                       !.log = Append(@, f.ev)]
              IN IF st.next = "continue" THEN resume' = r1 /\ UNCHANGED qVars
                 ELSE IF st.next = "ExpectedHandshake"
                 THEN resume' = [r1 EXCEPT !.pc = "idle", !.result = "ExpectedHandshake"]
                      /\ UNCHANGED qVars
                 ELSE /\ resume' = [r1 EXCEPT !.pc = "idle", !.result = "Ok"]
                      /\ auxQ' = auxQ \o SbResumeAuxMessages(st.hello[1], resume.ws)
                      /\ UNCHANGED mixQ
    /\ UNCHANGED <<hsVars, aux, mixer, mixOut, cycVars>>

Init ==
    /\ impl \in {"songbird", "serenity"}
    /\ endpoint \in EndpointSet /\ wsUrl = None
    /\ pc = "init" /\ err = ""
    /\ hello = None /\ ready = None
    /\ rxLog = <<>> /\ noneCount = 0 /\ keyLog = <<>>
    /\ wsLog = <<>> /\ udpBound = FALSE /\ udpLog = <<>> /\ natResp = None
    /\ auxQ = <<>> /\ mixQ = <<>> /\ session = None
    /\ resume = ResumeIdle /\ aux = AuxIdle /\ mixer = MixerIdle /\ mixOut = <<>>
    /\ sources = <<>> /\ handles = <<>> /\ rx = <<>> /\ sent = <<>> /\ cyc = CycIdle /\ pkt = PktIdle
    /\ udpTx = UdpTxIdle

Next ==
    \/ SbNewIdentify
    \/ SbNewRecvHandshake
    \/ SbNewDiscover
    \/ SbNewRecvDiscovery
    \/ SbNewInitCipher
    \/ SvNewIdentify
    \/ SvNewRecvHandshake
    \/ SvNewDiscover
    \/ SvNewRecvDiscovery
    \/ SvNewEncryptionKey

Spec == Init /\ [][Next]_vars

\* ------------------------------------------------ generate_url on its own
\* Largest number of parts an endpoint string is put together from.
MaxEndpointParts == 3

\* The longest run of bytes behind the extension header of a payload.
MaxPayloadLen == 3

EndpointParts == {<<"h">>, <<":", "8", "0">>, <<":", "8">>, <<"0">>, <<" ">>}

RECURSIVE Concats(_)
Concats(n) ==
    IF n = 0 THEN {<<>>}
    ELSE LET shorter == Concats(n - 1)
         IN shorter \cup {front \o part : front \in shorter, part \in EndpointParts}

\* The endpoint strings the gateway may hand over.
EndpointStrings == Concats(MaxEndpointParts)

InitUrl ==
    /\ impl \in {"songbird", "serenity"}
    /\ endpoint \in EndpointStrings /\ wsUrl = None
    /\ pc = "init" /\ err = ""
    /\ hello = None /\ ready = None
    /\ rxLog = <<>> /\ noneCount = 0 /\ keyLog = <<>>
    /\ wsLog = <<>> /\ udpBound = FALSE /\ udpLog = <<>> /\ natResp = None
    /\ auxQ = <<>> /\ mixQ = <<>> /\ session = None
    /\ resume = ResumeIdle /\ aux = AuxIdle /\ mixer = MixerIdle /\ mixOut = <<>>
    /\ sources = <<>> /\ handles = <<>> /\ rx = <<>> /\ sent = <<>> /\ cyc = CycIdle /\ pkt = PktIdle
    /\ udpTx = UdpTxIdle

NextUrl == SbNewIdentify \/ SvNewIdentify

SpecUrl == InitUrl /\ [][NextUrl]_vars

\* ------------------------------------------------- the resume specification
\* The state Connection::new (songbird) leaves behind after the handshake
\* Hello h, Ready r, a discovery response d, SessionDescription sd.
AfterNew(h, r, d, sd) ==
    /\ impl = "songbird" /\ endpoint = <<"h">> /\ wsUrl = Some(WssUrl(<<"h">>))
    /\ pc = "done" /\ err = ""
    /\ hello = Some(h) /\ ready = Some(r)
    /\ rxLog = <<h, r>> /\ noneCount = 0 /\ keyLog = <<sd>>
    /\ udpBound = TRUE /\ udpLog = <<SbDiscoveryRequest(r.ssrc)>> /\ natResp = Some(d)
    /\ LET res == SbParseDiscovery(d, Len(d)) IN
         wsLog = <<[ws |-> 1, msg |-> SbIdentify],
                   [ws |-> 1, msg |-> SbSelectProtocol(res.address, res.port)]>>
    /\ auxQ = SbAuxMessages(sd.secret_key, h, r)
    /\ mixQ = SbMixerMessages(sd.secret_key, r)
    /\ session = Some([info |-> Info, endpoint |-> <<"h">>])
    /\ resume = ResumeIdle /\ aux = AuxIdle /\ mixer = MixerIdle /\ mixOut = <<>>
    /\ sources = <<>> /\ handles = <<>> /\ rx = <<>> /\ sent = <<>> /\ cyc = CycIdle /\ pkt = PktIdle

InitResume ==
    \E h \in {[op |-> "Hello", heartbeat_interval |-> 40]} :
        AfterNew(h, [op |-> "Ready", ssrc |-> 99, ip |-> "10.0.0.1", port |-> 50000, modes |-> ModesGood],
                 MkDiscovery(2, 70, 99, Addr203, 50000),
                 [op |-> "SessionDescription", mode |-> CRYPTO_MODE, secret_key |-> Key1])
        /\ udpTx = UdpTxStarted

NextResume ==
    \/ SbReconnectResume
    \/ SbReconnectRecv
    \/ AuxRecv
    \/ MixerRecv
    \/ MixerTick

SpecResume == InitResume /\ [][NextResume]_vars

\* ------------------------------------------------ the hand-off specification
\* A hand-off that sends to the Mixer first and to the Auxiliary loop in the
\* opposite order.
SbHandoffSends_Reversed(cipher, h, r) ==
    <<[to |-> "mixer", msg |-> SbMixerMessages(cipher, r)[1]]>> \o
    [k \in 1..5 |-> [to |-> "aux", msg |-> SbAuxMessages(cipher, h, r)[6 - k]]]

\* Lines 198-209: the sends of Connection::new, one after the other: five on
\* interconnect.aux_packets, then SetConn on interconnect.mixer.
SbHandoffSends(cipher, h, r) ==
    [k \in 1..5 |-> [to |-> "aux", msg |-> SbAuxMessages(cipher, h, r)[k]]] \o
    <<[to |-> "mixer", msg |-> SbMixerMessages(cipher, r)[1]]>>

\* Lines 198-214, one send at a time: the queues are unbounded and the
\* Auxiliary loop and the Mixer run while Connection::new sends, so either
\* may take a message before the next one is sent. After the last send
\* Connection::new returns the Connection.
SbNewHandoff ==
    /\ impl = "songbird" /\ pc = "handoff"
    /\ \E sends \in {SbHandoffSends(keyLog[Len(keyLog)].secret_key, hello[1], ready[1])} :
        LET n == AuxSent + MixSent
            s == sends[n + 1]
        IN /\ IF s.to = "aux"
              THEN auxQ' = Append(auxQ, s.msg) /\ UNCHANGED mixQ
              ELSE mixQ' = Append(mixQ, s.msg) /\ UNCHANGED auxQ
           /\ IF n + 1 = Len(sends)
              THEN pc' = "done" /\ session' = Some([info |-> Info, endpoint |-> endpoint])
              ELSE UNCHANGED <<pc, session>>
    /\ UNCHANGED <<impl, endpoint, wsUrl, err, hello, ready, rxLog, noneCount, keyLog, wsLog, udpBound,
                   udpLog, natResp, taskVars, cycVars>>

\* init_cipher (line 154) has returned the key of SessionDescription sd, after
\* the handshake Hello h, Ready r and the discovery response d; nothing has
\* been sent to the Auxiliary loop or the Mixer yet.
BeforeHandoff(h, r, d, sd) ==
    /\ impl = "songbird" /\ endpoint = <<"h">> /\ wsUrl = Some(WssUrl(<<"h">>))
    /\ pc = "handoff" /\ err = ""
    /\ hello = Some(h) /\ ready = Some(r)
    /\ rxLog = <<h, r>> /\ noneCount = 0 /\ keyLog = <<sd>>
    /\ udpBound = TRUE /\ udpLog = <<SbDiscoveryRequest(r.ssrc)>> /\ natResp = Some(d)
    /\ LET res == SbParseDiscovery(d, Len(d)) IN
         wsLog = <<[ws |-> 1, msg |-> SbIdentify],
                   [ws |-> 1, msg |-> SbSelectProtocol(res.address, res.port)]>>
    /\ auxQ = <<>> /\ mixQ = <<>> /\ session = None
    /\ resume = ResumeIdle /\ aux = AuxIdle /\ mixer = MixerIdle /\ mixOut = <<>>
    /\ sources = <<>> /\ handles = <<>> /\ rx = <<>> /\ sent = <<>> /\ cyc = CycIdle /\ pkt = PktIdle

InitHandoff ==
    \E h \in {[op |-> "Hello", heartbeat_interval |-> i] : i \in {40, 41}}, key \in {Key0, Key1} :
        BeforeHandoff(h, [op |-> "Ready", ssrc |-> 99, ip |-> "10.0.0.1", port |-> 50000, modes |-> ModesGood],
                      MkDiscovery(2, 70, 99, Addr203, 50000),
                      [op |-> "SessionDescription", mode |-> CRYPTO_MODE, secret_key |-> key])
        /\ udpTx = UdpTxStarted

NextHandoff ==
    \/ SbNewHandoff
    \/ AuxRecv
    \/ MixerRecv
    \/ MixerTick

SpecHandoff == InitHandoff /\ [][NextHandoff]_vars

\* -------------------------------------------------- the cycle specification
\* The state Connection::new (serenity) leaves behind after the handshake
\* Hello h, Ready r, a discovery response d, SessionDescription sd.
AfterSvNew(h, r, d, sd) ==
    /\ impl = "serenity" /\ endpoint = <<"h">> /\ wsUrl = Some(WssUrl(<<"h">>))
    /\ pc = "done" /\ err = ""
    /\ hello = Some(h) /\ ready = Some(r)
    /\ rxLog = <<h, r>> /\ noneCount = 0 /\ keyLog = <<sd>>
    /\ udpBound = TRUE /\ udpLog = <<SvDiscoveryRequest(r.ssrc)>> /\ natResp = Some(d)
    /\ LET rcv == RecvInto(Zeros(SV_RECV_LEN), d)
           res == SvParseDiscovery(SvDiscoveryRequest(r.ssrc), rcv.buf, rcv.len)
       IN wsLog = <<[ws |-> 1, msg |-> SvIdentify],
                    [ws |-> 1, msg |-> SvSelectProtocol(res.addr, res.port)]>>
    /\ auxQ = <<>> /\ mixQ = <<>>
    /\ resume = ResumeIdle /\ aux = AuxIdle /\ mixer = MixerIdle /\ mixOut = <<>>
    /\ sources = <<>> /\ handles = <<>> /\ rx = <<>> /\ sent = <<>>

\* The Connection after it has sent 2^26 - 1 frames of a source that the
\* application then took off the list: sequence is 2^16 - 1 and timestamp is
\* 960 * (2^26 - 1) mod 2^32 = 2^32 - 960, both about to wrap.
BeforeWrap(c) ==
    [c EXCEPT !.sequence = 65535, !.timestamp = U32(65535, 64576), !.silence_frames = 5,
              !.speaking = TRUE, !.encoder_stereo = TRUE]

\* The Connection when cycle is first called: as Connection::new returns it
\* with no receiver installed, or about to wrap with a receiver installed.
InitCycle ==
    /\ AfterSvNew([op |-> "Hello", heartbeat_interval |-> 40],
                  [op |-> "Ready", ssrc |-> 99, ip |-> "10.0.0.1", port |-> 50000, modes |-> ModesGood],
                  MkOldDiscovery(99, Addr203, 50000),
                  [op |-> "SessionDescription", mode |-> CRYPTO_MODE, secret_key |-> Key1])
    /\ \E fresh \in BOOLEAN, receiver \in BOOLEAN :
        LET c == SvConnection(hello[1], ready[1], Key1) IN
        /\ fresh /= receiver
        /\ session = Some(IF fresh THEN c ELSE BeforeWrap(c))
        /\ cyc = [CycIdle EXCEPT !.fresh = fresh, !.receiver = receiver]
    /\ pkt = PktIdle /\ udpTx = UdpTxIdle

NextCycle ==
    \/ SvCycle
    \/ SvPlay
    \/ SvControl
    \/ SvStatus

SpecCycle == InitCycle /\ [][NextCycle]_vars

\* --------------------------------------------- one packet, built and parsed
\* sequence and timestamp after n packets, for n = 0, 1, 258, 65536, 70000
\* and 2^26 - 1: n mod 2^16 and 960 * n mod 2^32.
PacketCounters ==
    { [sequence |-> 0, timestamp |-> U32(0, 0)],
      [sequence |-> 1, timestamp |-> U32(0, 960)],
      [sequence |-> 258, timestamp |-> U32(3, 51072)],
      [sequence |-> 0, timestamp |-> U32(960, 0)],
      [sequence |-> 4464, timestamp |-> U32(1025, 25600)],
      [sequence |-> 65535, timestamp |-> U32(65535, 64576)] }

\* The ssrc the Ready assigned.
PacketSsrcs == {5, 99, 16909060}

\* What cycle hands to prep_packet: a mix and no frame, or the silence frame.
PacketPayloads ==
    { [buffer |-> ZeroBuffer, opus_frame |-> SILENCE_FRAME],
      [buffer |-> ZeroBuffer, opus_frame |-> <<>>],
      [buffer |-> [i \in 1..STEREO_LEN |-> 3 * i], opus_frame |-> <<>>] }

InitPacket ==
    \E n \in PacketCounters, ssrc \in PacketSsrcs, pl \in PacketPayloads :
        /\ AfterSvNew([op |-> "Hello", heartbeat_interval |-> 40],
                      [op |-> "Ready", ssrc |-> ssrc, ip |-> "10.0.0.1", port |-> 50000, modes |-> ModesGood],
                      MkOldDiscovery(ssrc, Addr203, 50000),
                      [op |-> "SessionDescription", mode |-> CRYPTO_MODE, secret_key |-> Key1])
        /\ LET c == SvConnection(hello[1], ready[1], Key1)
           IN session = Some(IF n.sequence = 0 /\ n.timestamp = U32(0, 0) THEN c
                             ELSE [BeforeWrap(c) EXCEPT !.sequence = n.sequence,
                                                        !.timestamp = n.timestamp])
        /\ cyc = CycIdle
        /\ pkt = [PktIdle EXCEPT !.stage = "input", !.buffer = pl.buffer, !.opus_frame = pl.opus_frame]
        /\ udpTx = UdpTxIdle

NextPacket == PktBuild \/ PktParse

SpecPacket == InitPacket /\ [][NextPacket]_vars

\* ------------------------------------- one payload, stripped of extensions
\* Bytes a payload is put together from: padding, an element byte with high
\* nibble 0 and low nibble 1, one with high nibble 1 and low nibble 0, one
\* with both nibbles 1, and a byte of Opus data.
PayloadBytes == {0, 1, 16, 17, 120}

\* The byte strings of length n over PayloadBytes.
RECURSIVE ByteStrings(_)
ByteStrings(n) ==
    IF n = 0 THEN {<<>>}
    ELSE {Append(b, x) : b \in ByteStrings(n - 1), x \in PayloadBytes}

\* The decrypted payloads: an extension header 0xBE 0xDE declaring 0, 1 or 2
\* elements followed by up to MaxPayloadLen bytes, and payloads with no such
\* header (among them 0xBE alone and 0xBE followed by Opus data).
Payloads ==
    LET bodies == UNION {ByteStrings(n) : n \in 0..MaxPayloadLen}
    IN {<<190, 222, 0, l>> \o b : l \in 0..2, b \in bodies}
       \cup (bodies \ {<<>>}) \cup {<<190>>, <<190, 120>>}

InitStrip ==
    /\ AfterSvNew([op |-> "Hello", heartbeat_interval |-> 40],
                  [op |-> "Ready", ssrc |-> 99, ip |-> "10.0.0.1", port |-> 50000, modes |-> ModesGood],
                  MkOldDiscovery(99, Addr203, 50000),
                  [op |-> "SessionDescription", mode |-> CRYPTO_MODE, secret_key |-> Key1])
    /\ session = Some(SvConnection(hello[1], ready[1], Key1))
    /\ cyc = CycIdle /\ udpTx = UdpTxIdle
    /\ \E d \in Payloads : pkt = [PktIdle EXCEPT !.stage = "payload", !.packet = Some(d)]

NextStrip == PktStrip

SpecStrip == InitStrip /\ [][NextStrip]_vars

\* ------------------------------------------------ the songbird send task
InitUdpTx ==
    /\ AfterNew([op |-> "Hello", heartbeat_interval |-> 40],
                [op |-> "Ready", ssrc |-> 99, ip |-> "10.0.0.1", port |-> 50000, modes |-> ModesGood],
                MkDiscovery(2, 70, 99, Addr203, 50000),
                [op |-> "SessionDescription", mode |-> CRYPTO_MODE, secret_key |-> Key1])
    /\ udpTx = UdpTxStarted

NextUdpTx ==
    \/ UdpTxSend
    \/ UdpTxPoison
    \/ UdpTxClose
    \/ UdpTxAdvance
    \/ UdpTxStep
    \/ SbDrop

SpecUdpTx == InitUdpTx /\ [][NextUdpTx]_vars

\* The task is scheduled: a turn of its loop that can be taken is taken.
SpecUdpTxLive == SpecUdpTx /\ WF_vars(UdpTxStep)

\* ================================================================== claims
\* Error kinds: serenity names two kinds "Voice..." that songbird names
\* "Crypto...", and reports a bad key as KeyGen where songbird reports Crypto.
ErrKind(e) ==
    IF e = "VoiceModeUnavailable" THEN "CryptoModeUnavailable"
    ELSE IF e = "VoiceModeInvalid" THEN "CryptoModeInvalid"
    ELSE IF e = "KeyGen" THEN "Crypto"
    ELSE e

\* The Hello/Ready wait has finished with both parts (the loop broke).
PastWait ==
    \/ pc \in {"hs_both", "udp_bind", "nat_wait", "key_wait", "done"}
    \/ pc = "failed" /\ (udpBound \/ err \notin {"EndpointUrl", "Ws", "ExpectedHandshake"})

SentOps(ws) == SelectSeq(wsLog, LAMBDA m : m.ws = ws)

SelectProtocols == SelectSeq(wsLog, LAMBDA m : m.msg.op = "SelectProtocol")

\* Nothing of the handshake has reached the Auxiliary loop or the Mixer.
NothingHandedOff ==
    auxQ = <<>> /\ mixQ = <<>> /\ aux = AuxIdle /\ mixer = MixerIdle /\ session = None

\* C1: Hello-then-Ready and Ready-then-Hello (None frames interleaved) both
\* finish the wait with the received pair stored, and the wait never finishes
\* while only one of the two has been received.
C1_OrderIndependent ==
    /\ PastWait =>
         /\ hello /= None /\ ready /= None
         /\ \E i \in 1..Len(rxLog) : rxLog[i].op = "Hello"
         /\ \E i \in 1..Len(rxLog) : rxLog[i].op = "Ready"
    /\ \A h \in HelloEvents, r \in ReadyEvents :
         (rxLog = <<h, r>> \/ rxLog = <<r, h>>) =>
             PastWait /\ hello = Some(h) /\ ready = Some(r)

\* Ready arrived first, a None frame was skipped, Hello finished the wait.
C1_Witness ==
    /\ PastWait /\ Len(rxLog) = 2 /\ rxLog[1].op = "Ready" /\ rxLog[2].op = "Hello"
    /\ noneCount >= 1 /\ hello = Some(rxLog[2]) /\ ready = Some(rxLog[1])

\* C2: an event other than Hello or Ready during the wait fails the handshake
\* with ExpectedHandshake; on that failure no discovery request and no
\* SelectProtocol were sent and nothing reached the Auxiliary loop or Mixer.
C2_ExpectedHandshake ==
    /\ (\E i \in 1..Len(rxLog) : rxLog[i].op \notin {"Hello", "Ready"}) =>
          pc = "failed" /\ err = "ExpectedHandshake"
    /\ err = "ExpectedHandshake" =>
          /\ pc = "failed"
          /\ rxLog /= <<>> /\ rxLog[Len(rxLog)].op \notin {"Hello", "Ready"}
          /\ ~udpBound /\ udpLog = <<>> /\ natResp = None
          /\ SelectProtocols = <<>>
          /\ NothingHandedOff

\* Hello had already arrived when a third opcode came in.
C2_Witness ==
    /\ err = "ExpectedHandshake" /\ Len(rxLog) = 2
    /\ rxLog[1].op = "Hello" /\ rxLog[2].op = "Speaking"

\* C4: when the configured crypto mode is not among Ready.modes the handshake
\* fails with CryptoModeUnavailable before the UDP socket is bound and before
\* a discovery request or SelectProtocol is sent.
C4_ModeUnavailable ==
    (PastWait /\ ~(\E i \in 1..Len(ready[1].modes) : ready[1].modes[i] = CRYPTO_MODE)) =>
        /\ pc \in {"hs_both", "failed"}
        /\ pc = "failed" => ErrKind(err) = "CryptoModeUnavailable"
        /\ ~udpBound /\ udpLog = <<>> /\ natResp = None
        /\ SelectProtocols = <<>>
        /\ NothingHandedOff

C4_Witness ==
    /\ pc = "failed" /\ ErrKind(err) = "CryptoModeUnavailable"
    /\ ready /= None /\ ready[1].modes = ModesBad /\ hello /= None

\* A discovery response as the wire protocol defines it: 74 bytes, type 2,
\* length 70, a NUL-terminated address field holding an IP address.
ValidResponse(d) ==
    /\ Len(d) = IP_DISCOVERY_LEN
    /\ WireType(d) = 2 /\ WireLength(d) = 70
    /\ PositionNul(Slice(d, 8, 72)) /= None
    /\ ParseIp(WireAddress(d)) /= None

\* The ssrc of the media session the handshake handed off.
HandedSsrc == IF impl = "songbird" THEN mixQ[1].ssrc ELSE session[1].ssrc

\* The media key of the session the handshake handed off.
HandedKey == IF impl = "songbird" THEN mixQ[1].cipher ELSE session[1].key

ModeChecked == \E i \in 1..Len(ready[1].modes) : ready[1].modes[i] = CRYPTO_MODE

\* C3 (ordering part): Identify is the first message on the WebSocket; the
\* discovery request follows Hello, Ready and the mode check; SelectProtocol is
\* sent at most once, after the request and a response; the handshake
\* completes after a SessionDescription, with ssrc = Ready.ssrc.
C3_Order ==
    /\ wsLog /= <<>> => wsLog[1].msg.op = "Identify"
    /\ udpLog /= <<>> => hello /= None /\ ready /= None /\ ModeChecked
    /\ Len(SelectProtocols) <= 1
    /\ SelectProtocols /= <<>> => udpLog /= <<>> /\ natResp /= None
    /\ pc = "done" =>
         /\ Len(SelectProtocols) = 1
         /\ keyLog /= <<>> /\ keyLog[Len(keyLog)].op = "SessionDescription"
         /\ HandedSsrc = ready[1].ssrc

\* C3: the message order of the new-session handshake, SelectProtocol being
\* sent exactly once and only after a valid discovery response.
C3_MessageOrder ==
    /\ C3_Order
    /\ SelectProtocols /= <<>> => ValidResponse(natResp[1])

\* C5: the address and port of SelectProtocol are those of the discovery
\* response received: the address field up to its first NUL, the port field
\* read big-endian; nothing comes from the request buffer.
C5_SelectProtocolFromResponse ==
    SelectProtocols /= <<>> =>
        LET m == SelectProtocols[1].msg
            d == natResp[1]
        IN /\ Len(d) >= IP_DISCOVERY_LEN
           /\ PositionNul(Slice(d, 8, 72)) /= None
           /\ m.address = WireAddress(d)
           /\ m.port = WirePort(d)

\* C6: a discovery datagram whose type field is not 2 fails the handshake
\* with IllegalDiscoveryResponse and SelectProtocol is never sent.
C6_WrongTypeRejected ==
    (natResp /= None /\ WireType(natResp[1]) /= 2) =>
        /\ pc = "failed" /\ err = "IllegalDiscoveryResponse"
        /\ SelectProtocols = <<>>

\* C7: a discovery response of the wrong length (length field not 70, or not
\* the 74-byte layout) fails the songbird handshake with
\* IllegalDiscoveryResponse and SelectProtocol is never sent.
C7_WrongLengthRejected ==
    (impl = "songbird" /\ natResp /= None
       /\ (Len(natResp[1]) /= IP_DISCOVERY_LEN \/ WireLength(natResp[1]) /= 70)) =>
        /\ pc = "failed" /\ err = "IllegalDiscoveryResponse"
        /\ SelectProtocols = <<>>

LastKeyEvent == keyLog[Len(keyLog)]

\* The session-description wait is over and the handshake did not complete.
KeyWaitFailed(kind) == pc = "failed" /\ ErrKind(err) = kind /\ NothingHandedOff

\* What C8 says of every event but a SessionDescription with the configured
\* mode: the wait goes on after any other event (a later receive error
\* aside), and a SessionDescription with another mode is CryptoModeInvalid.
C8_Others ==
    /\ \A i \in 1..(Len(keyLog) - 1) : keyLog[i].op /= "SessionDescription"
    /\ (keyLog /= <<>> /\ LastKeyEvent.op /= "SessionDescription") =>
          \/ pc = "key_wait" /\ err = ""
          \/ pc = "failed" /\ err = "Ws"
    /\ (keyLog /= <<>> /\ LastKeyEvent.op = "SessionDescription" /\ LastKeyEvent.mode /= CRYPTO_MODE) =>
          KeyWaitFailed("CryptoModeInvalid")
    /\ pc = "done" =>
          keyLog /= <<>> /\ LastKeyEvent.op = "SessionDescription" /\ LastKeyEvent.mode = CRYPTO_MODE

\* C8 as stated: after SelectProtocol only a SessionDescription ends the wait;
\* other events leave it waiting; a SessionDescription with another mode fails
\* with CryptoModeInvalid; one with the configured mode completes the
\* handshake with the media key equal to its secret_key.
C8_SessionDescription ==
    /\ C8_Others
    /\ (keyLog /= <<>> /\ LastKeyEvent.op = "SessionDescription" /\ LastKeyEvent.mode = CRYPTO_MODE) =>
          pc = "done" /\ HandedKey = LastKeyEvent.secret_key

\* C8 amended: as C8, but a SessionDescription with the configured mode
\* completes the handshake only when its secret_key is 32 bytes long; with a
\* secret_key of another length the handshake fails with a key error.
C8_Amended ==
    /\ C8_Others
    /\ (keyLog /= <<>> /\ LastKeyEvent.op = "SessionDescription" /\ LastKeyEvent.mode = CRYPTO_MODE) =>
          IF Len(LastKeyEvent.secret_key) = KEY_LEN
          THEN pc = "done" /\ HandedKey = LastKeyEvent.secret_key
          ELSE KeyWaitFailed("Crypto")

\* An event that is not a SessionDescription was skipped, a None frame too,
\* then a SessionDescription with the configured mode completed the handshake.
C8_Witness ==
    /\ pc = "done" /\ Len(keyLog) = 2 /\ keyLog[1].op = "Speaking"
    /\ keyLog[2].op = "SessionDescription" /\ HandedKey = Key1 /\ noneCount >= 1

\* ------------------------------------------------------------ resume claims
ResumesOn(ws) == SelectSeq(wsLog, LAMBDA m : m.ws = ws)

\* What a resume must leave alone: the media session and the Mixer's side.
ResumeFrame == <<hello, ready, session, udpBound, udpLog, natResp, keyLog, mixQ, mixer, mixOut, aux>>

\* State part of C9: a new WebSocket carries one Resume and nothing else; a
\* resume succeeds only with Hello and Resumed both received; the Mixer keeps
\* the ssrc and key of the handshake; consecutive media packets carry
\* consecutive sequence numbers, the same ssrc and the same key.
C9_State ==
    /\ \A i \in 1..Len(wsLog) :
          wsLog[i].ws > 1 => wsLog[i].msg = SbResume /\ Len(ResumesOn(wsLog[i].ws)) = 1
    /\ resume.result = "Ok" =>
          /\ resume.pc = "idle" /\ resume.hello /= None /\ resume.resumed /= None
          /\ Len(ResumesOn(resume.ws)) = 1
          /\ \E i \in 1..Len(resume.log) : resume.log[i].op = "Hello"
          /\ \E i \in 1..Len(resume.log) : resume.log[i].op = "Resumed"
          /\ AuxSent = resume.aux0 + 2 /\ MixSent = resume.mix0
    /\ MixSent = 1
    /\ mixer.conn /= None =>
          mixer.conn[1] = [cipher |-> keyLog[Len(keyLog)].secret_key, udp |-> 1, ssrc |-> ready[1].ssrc]
    /\ \A i \in 1..Len(MediaPackets) :
          /\ MediaPackets[i].sequence = i - 1
          /\ MediaPackets[i].timestamp = U32(0, 960 * (i - 1))
          /\ MediaPackets[i].ssrc = ready[1].ssrc
          /\ MediaPackets[i].key = keyLog[Len(keyLog)].secret_key

\* Step part of C9: no step of reconnect touches the media session or the
\* Mixer, and the step that finishes a resume hands the Auxiliary loop exactly
\* the new heartbeat interval and the new WebSocket, in that order.
C9_Step ==
    /\ resume' /= resume => UNCHANGED ResumeFrame
    /\ (resume.pc = "wait" /\ resume'.result = "Ok") =>
          auxQ' = auxQ \o << [tag |-> "SetKeepalive", interval |-> resume'.hello[1].heartbeat_interval],
                              [tag |-> "Ws", ws |-> resume.ws] >>
    /\ (resume' /= resume /\ resume'.result /= "Ok") => auxQ' = auxQ

\* C9: a successful reconnect sends one Resume on a new WebSocket, waits for
\* Hello and Resumed, hands the Auxiliary loop only the new heartbeat interval
\* and WebSocket, sends the Mixer nothing and leaves ssrc, key, UDP socket,
\* sequence and timestamp alone, so that under every interleaving with mixer
\* ticks each media packet follows the previous one by sequence + 1.
C9_ResumeFrameEffect == [](C9_State) /\ [][C9_Step]_vars

\* A resume that started after the first media packet has succeeded with
\* Resumed before Hello, the Auxiliary loop has taken the new WebSocket and
\* interval, and a further media packet went out afterwards.
C9_Witness ==
    /\ resume.result = "Ok" /\ resume.media0 = 1 /\ Len(MediaPackets) = 2
    /\ resume.log[1].op = "Resumed"
    /\ aux.ws = Some(2) /\ aux.heartbeat_interval = Some(resume.hello[1].heartbeat_interval)
    /\ aux.heartbeat_interval /= Some(hello[1].heartbeat_interval)

\* C10: an event other than Hello or Resumed during the resume wait fails
\* reconnect with ExpectedHandshake, and on that failure nothing was sent to
\* the Auxiliary loop or the Mixer: the Auxiliary loop never gets the new
\* WebSocket nor a new heartbeat interval.
C10_ResumeRefused ==
    /\ (resume.log /= <<>> /\ resume.log[Len(resume.log)].op \notin {"Hello", "Resumed"}) =>
          resume.pc = "idle" /\ resume.result = "ExpectedHandshake"
    /\ resume.result = "ExpectedHandshake" =>
          /\ resume.log /= <<>> /\ resume.log[Len(resume.log)].op \notin {"Hello", "Resumed"}
          /\ AuxSent = resume.aux0 /\ MixSent = resume.mix0
          /\ aux.ws /= Some(resume.ws)
          /\ \A i \in 1..Len(auxQ) : auxQ[i] /= [tag |-> "Ws", ws |-> resume.ws]
          /\ (auxQ = <<>> /\ resume.count = 1) =>
                aux.ws = Some(1) /\ aux.heartbeat_interval = Some(hello[1].heartbeat_interval)

\* Hello of the resume had arrived, then a third opcode; the Auxiliary loop,
\* its queue drained, holds the WebSocket and interval of the handshake.
C10_Witness ==
    /\ resume.result = "ExpectedHandshake" /\ Len(resume.log) = 2
    /\ resume.log[1].op = "Hello" /\ resume.count = 1
    /\ resume.log[1].heartbeat_interval /= hello[1].heartbeat_interval
    /\ auxQ = <<>> /\ aux.ws = Some(1)

\* ------------------------------------------------------------- cycle claims
\* The media packets cycle handed to the UDP socket, in order.
MediaSent == SelectSeq(sent, LAMBDA m : m.to = "udp" /\ m.kind = "Media")

\* The Speaking values cycle sent on the WebSocket, in order.
SpeakingSent ==
    LET sp == SelectSeq(sent, LAMBDA m : m.to = "ws" /\ m.msg.op = "Speaking")
    IN [i \in 1..Len(sp) |-> sp[i].msg.speaking]

IsSilence(p) == p.payload.frame = "copied" /\ p.payload.samples = SILENCE_FRAME

\* Packet numbering: the first packet after the handshake is numbered 0 / 0
\* and each packet follows the one before by 1 and by 960, with wrap-around.
C11_Numbering ==
    /\ (cyc.fresh /\ MediaSent /= <<>>) =>
            MediaSent[1].sequence = 0 /\ MediaSent[1].timestamp = U32(0, 0)
    /\ \A i \in 1..(Len(MediaSent) - 1) :
            /\ MediaSent[i + 1].sequence = WrappingAdd16(MediaSent[i].sequence, 1)
            /\ MediaSent[i + 1].timestamp = WrappingAdd32(MediaSent[i].timestamp, 960)

\* A call of cycle that transmits no media packet leaves sequence and
\* timestamp as they were.
C11_IdleTickKeeps ==
    (cyc'.ticks = cyc.ticks + 1 /\ Len(MediaSent') = Len(MediaSent)) =>
        /\ session'[1].sequence = session[1].sequence
        /\ session'[1].timestamp = session[1].timestamp

\* C11: the first media packet after a handshake has sequence 0 and timestamp
\* 0; of two consecutively transmitted media packets the second has sequence
\* + 1 mod 2^16 and timestamp + 960 mod 2^32, also across wrap-around; a tick
\* that transmits nothing leaves sequence and timestamp unchanged.
C11_SequenceTimestamp == [](C11_Numbering) /\ [][C11_IdleTickKeeps]_vars

\* The same on behaviours in which no send failed: this part holds.
C11_WithoutFailure == [](cyc.fails = 0 => C11_Numbering) /\ [][cyc'.fails = 0 => C11_IdleTickKeeps]_vars

\* Both counters have wrapped: the packet after 65535 / 2^32 - 960 is 0 / 0.
C11_WrapReached ==
    /\ ~cyc.fresh /\ Len(MediaSent) >= 2
    /\ MediaSent[1].sequence = 65535 /\ MediaSent[2].sequence = 0
    /\ MediaSent[1].timestamp = U32(65535, 64576) /\ MediaSent[2].timestamp = U32(0, 0)

\* What cycle sent after the last call in which a source contributed.
SinceContribution == SubSeq(sent, cyc.mark + 1, Len(sent))

MediaIn(log) == SelectSeq(log, LAMBDA m : m.to = "udp" /\ m.kind = "Media")

IsSpeaking(m, b) == m.to = "ws" /\ m.msg.op = "Speaking" /\ m.msg.speaking = b

\* The last call in which a source contributed transmitted its encoded frame.
RealFrameSent ==
    /\ cyc.mark > 0 /\ sent[cyc.mark].to = "udp" /\ sent[cyc.mark].kind = "Media"
    /\ sent[cyc.mark].payload.frame = "encoded"

\* After a real frame and n calls without a contribution: min(n, 5) silence
\* frames were transmitted, Speaking=false was sent iff n >= 6, after the
\* fifth silence frame, and no media packet after it.
SilenceThenUnspeak ==
    RealFrameSent =>
        LET tail == SinceContribution
            media == MediaIn(tail)
        IN /\ Len(media) = Min(cyc.idle, 5)
           /\ \A i \in 1..Len(media) : IsSilence(media[i])
           /\ (cyc.idle >= 6) <=> (\E j \in 1..Len(tail) : IsSpeaking(tail[j], FALSE))
           /\ \A j \in 1..Len(tail) : IsSpeaking(tail[j], FALSE) =>
                  /\ Len(MediaIn(SubSeq(tail, 1, j))) = 5
                  /\ MediaIn(SubSeq(tail, j, Len(tail))) = <<>>

\* C12: once a real frame was transmitted and no source contributes any more,
\* exactly five silence frames follow the last real frame, Speaking=false is
\* sent on the tick after the fifth and not earlier, and no media packet is
\* transmitted after it until a source contributes again.
C12_SilenceBeforeUnspeak == SilenceThenUnspeak

\* The same on behaviours in which no send failed: this part holds.
C12_WithoutFailure == cyc.fails = 0 => SilenceThenUnspeak

\* A real frame, five silence frames, then Speaking=false on the sixth tick.
C12_UnspeakReached ==
    /\ RealFrameSent /\ cyc.fails = 0 /\ cyc.idle = 6
    /\ Len(MediaIn(SinceContribution)) = 5
    /\ IsSpeaking(sent[Len(sent)], FALSE)

\* C13: a mixer started right after the handshake that never gets a source
\* transmits five silence frames on its first five ticks, sends Speaking=false
\* on the sixth, and transmits no media packet on any later tick. (Stated for
\* the calls of cycle that got to mixing, on behaviours without a failed send.)
C13_FiveSilenceFramesAfterHandshake ==
    (cyc.fresh /\ handles = <<>> /\ cyc.fails = 0) =>
        /\ Len(MediaSent) = Min(cyc.idle, 5)
        /\ \A i \in 1..Len(MediaSent) : IsSilence(MediaSent[i])
        /\ (cyc.idle >= 6) <=> (\E j \in 1..Len(sent) : IsSpeaking(sent[j], FALSE))

\* What a step appended to the log sent.
NewlySent == SubSeq(sent', Len(sent) + 1, Len(sent'))

\* A call of cycle that got to set_speaking(b) sent Speaking{b} iff b differed
\* from the speaking flag.
SetSpeakingSendsIffDiffers ==
    (cyc'.ticks = cyc.ticks + 1 /\ cyc'.spoke /= None) =>
        LET b == cyc'.spoke[1] IN
        /\ (\E j \in 1..Len(NewlySent) : IsSpeaking(NewlySent[j], b)) <=> (session[1].speaking /= b)
        /\ \A j \in 1..Len(NewlySent) : ~IsSpeaking(NewlySent[j], ~b)

\* The Speaking values sent alternate, starting with true after a handshake
\* (with false where the behaviour starts from a speaking Connection).
SpeakingAlternates ==
    \A i \in 1..Len(SpeakingSent) : SpeakingSent[i] = ((i % 2 = 1) = cyc.fresh)

\* In a run of calls in which a source contributes every time, Speaking=true is
\* sent by the first call if the flag was false and by no later call.
OncePerRun ==
    (cyc'.ticks = cyc.ticks + 1 /\ cyc'.len > 0) =>
        LET said == \E j \in 1..Len(NewlySent) : IsSpeaking(NewlySent[j], TRUE)
        IN IF cyc.ticks > 0 /\ cyc.len > 0 /\ SpeakingSent /= <<>>
           THEN ~said
           ELSE said <=> ~session[1].speaking

\* C14: set_speaking(b) sends a Speaking message iff b differs from the
\* speaking flag; the Speaking messages sent alternate in value starting with
\* true; over a run of ticks in which a source contributes every time,
\* Speaking=true is sent once.
C14_SpeakingTransitions ==
    [](SpeakingAlternates) /\ [][SetSpeakingSendsIffDiffers /\ OncePerRun]_vars

\* The same on behaviours in which no send failed: this part holds.
C14_WithoutFailure ==
    [](cyc.fails = 0 => SpeakingAlternates)
    /\ [][cyc'.fails = 0 => (SetSpeakingSendsIffDiffers /\ OncePerRun)]_vars

\* Speaking=true, a contributing call, five silence frames, Speaking=false.
C14_AlternationReached ==
    /\ cyc.fails = 0 /\ cyc.fresh /\ SpeakingSent = <<TRUE, FALSE>>
    /\ Len(SelectSeq(MediaSent, LAMBDA p : p.payload.frame = "encoded")) = 1

\* The handles whose source returned None / Some in the call just made.
EndedNow == {cyc'.reads[k].id : k \in {j \in 1..Len(cyc'.reads) : ~cyc'.reads[j].read.some}}

ReadSomeNow == {cyc'.reads[k].id : k \in {j \in 1..Len(cyc'.reads) : cyc'.reads[j].read.some}}

Without(list, ids) == SelectSeq(list, LAMBDA id : id \notin ids)

\* A source whose read returned None is off the list and finished after the
\* call; the list is otherwise the same, in the same order.
RemovalOfEnded ==
    cyc'.ticks = cyc.ticks + 1 =>
        /\ \A id \in EndedNow :
              /\ \A k \in 1..Len(sources') : sources'[k] /= id
              /\ handles'[id].finished
        /\ sources' = Without(sources, EndedNow)

\* C15: a playing source whose frame read returns None on a tick is absent
\* from the source list at the start of the next tick and its handle has
\* finished == true; every other source that was in the list keeps its place,
\* in the same relative order.
C15_SourceRemoval == [][RemovalOfEnded]_vars

\* The same on behaviours in which only PCM sources are played: this holds.
C15_PcmOnly == [][(\A id \in 1..Len(handles) : handles[id].kind = "Pcm") => RemovalOfEnded]_vars

\* Two PCM sources were on the list; the first one ended and was removed, the
\* second one keeps playing.
C15_RemovalReached ==
    /\ Len(handles) = 2 /\ sources = <<2>> /\ Len(cyc.reads) = 2
    /\ handles[1].finished /\ ~handles[2].finished /\ handles[2].frames >= 1
    /\ ~cyc.reads[1].read.some

\* A source whose read returned Some(n) in the call just made is still on the
\* list and not finished.
KeptWhenSome ==
    \A id \in ReadSomeNow :
        /\ \E k \in 1..Len(sources') : sources'[k] = id
        /\ ~handles'[id].finished

\* C16: the mixer removes a source on a tick only if that source's frame read
\* on that tick returned None: a source of either kind whose read returned
\* Some(n) is still in the source list after the tick and has finished == false.
C16_RemovedOnlyOnNone == [][KeptWhenSome]_vars

\* The same for the PCM sources alone: this holds.
C16_PcmKept ==
    [][\A id \in ReadSomeNow : handles[id].kind = "Pcm" =>
          /\ \E k \in 1..Len(sources') : sources'[k] = id
          /\ ~handles'[id].finished]_vars

\* C17: for every audio handle whose position the application never sets,
\* position equals 20 ms times the number of ticks in which the handle was
\* playing and its source returned a frame; ticks in which the handle is
\* paused, and the tick in which it terminates, do not advance it.
C17_PositionCountsFrames ==
    \A id \in 1..Len(handles) :
        ~handles[id].seeked => handles[id].position = FRAME_MS * handles[id].frames

\* The same for the PCM handles alone: this holds.
C17_PcmPosition ==
    \A id \in 1..Len(handles) :
        (~handles[id].seeked /\ handles[id].kind = "Pcm") =>
            handles[id].position = FRAME_MS * handles[id].frames

\* A PCM handle that returned two frames, sat out a tick paused or ended, and
\* stands at 40 ms.
C17_TwoFramesReached ==
    \E id \in 1..Len(handles) :
        /\ handles[id].kind = "Pcm" /\ ~handles[id].seeked
        /\ handles[id].frames = 2 /\ handles[id].position = 2 * FRAME_MS
        /\ handles[id].finished

\* The sum over the given reads of volume * sample[j] at 0-based mix index i,
\* j = i for a stereo source and i / 2 for a mono source (in units of
\* 1 / (VOL_ONE * 32768)).
RECURSIVE MixSum(_, _, _)
MixSum(reads, hs, i) ==
    IF reads = <<>> THEN 0
    ELSE LET r == Head(reads)
             j == IF hs[r.id].stereo THEN i ELSE i \div 2
         IN hs[r.id].volume * SampleAt(r.read, j) + MixSum(Tail(reads), hs, i)

Reversed(q) == [k \in 1..Len(q) |-> q[Len(q) + 1 - k]]

\* The call just made walked the sources, and every source it read is a PCM
\* source that returned a full frame.
FullPcmTick ==
    /\ cyc'.ticks = cyc.ticks + 1 /\ cyc'.reads /= <<>>
    /\ \A k \in 1..Len(cyc'.reads) :
          LET r == cyc'.reads[k]
          IN handles[r.id].kind = "Pcm" /\ r.read.some /\ r.read.n = r.buffer_len

\* C18: for a tick in which the playing sources are PCM sources that each
\* return a full frame, the mix buffer before soft-clipping holds at every
\* index i the sum over those sources of volume_k * sample_k[j] / 32768, where
\* j = i for a stereo source and j = i/2 for a mono source (each mono sample
\* duplicated to both channels); sources are summed independently of their
\* order.
C18_MixerSums ==
    [][FullPcmTick =>
          /\ Len(cyc'.mix) = STEREO_LEN
          /\ \A i \in 1..STEREO_LEN :
                /\ cyc'.mix[i] = MixSum(cyc'.reads, handles, i - 1)
                /\ cyc'.mix[i] = MixSum(Reversed(cyc'.reads), handles, i - 1)]_vars

\* A stereo source at volume 1.0 (frame 3, 4, 5, 6) and a mono source at 0.5
\* (frame 5, 6) were mixed in one call, in either order.
C18_TwoSourcesMixed ==
    /\ Len(cyc.reads) = 2 /\ Len(cyc.mix) = STEREO_LEN
    /\ \E a, b \in 1..2 :
          /\ a /= b
          /\ handles[cyc.reads[a].id].kind = "Pcm" /\ handles[cyc.reads[a].id].stereo
          /\ handles[cyc.reads[a].id].volume = VOL_ONE
          /\ cyc.reads[a].read = ReadSome(STEREO_LEN, 3)
          /\ handles[cyc.reads[b].id].kind = "Pcm" /\ ~handles[cyc.reads[b].id].stereo
          /\ handles[cyc.reads[b].id].volume = 1
          /\ cyc.reads[b].read = ReadSome(MONO_LEN, 5)
    /\ cyc.mix[1] = 11 /\ cyc.mix[2] = 13 /\ cyc.mix[3] = 16 /\ cyc.mix[4] = 18

\* The call just made took a HeartbeatAck off the queue while a Heartbeat was
\* unanswered: the first ack taken was compared with that Heartbeat's nonce.
NonceEcho ==
    (cyc'.ticks = cyc.ticks + 1 /\ cyc.pending /= <<>> /\ AcksTaken(rx, rx') /= <<>>) =>
        /\ cyc'.compared /= <<>>
        /\ cyc'.compared[1] = [ack |-> AcksTaken(rx, rx')[1].ev.nonce, expected |-> cyc.pending[1]]

\* A comparison that found different nonces is not what makes a call return
\* an error.
MismatchNotFatal ==
    (/\ cyc'.ticks = cyc.ticks + 1
     /\ \E k \in 1..Len(cyc'.compared) : cyc'.compared[k].ack /= cyc'.compared[k].expected
     /\ cyc'.fails = cyc.fails
     /\ \A k \in 1..(Len(rx) - Len(rx')) :
           rx[k].tag = "Udp" => SvInbound(rx[k].packet, session[1].key).outcome /= "error")
        => cyc'.result = "Ok"

\* C19: for every Heartbeat sent with nonce N, the next HeartbeatAck received
\* is compared against N (the nonce of the most recently sent Heartbeat); an
\* ack carrying a different nonce does not terminate the loop or produce an
\* error: the loop keeps processing events and keeps sending heartbeats, also
\* when an earlier heartbeat was never acknowledged.
C19_HeartbeatNonceEcho == [][NonceEcho /\ MismatchNotFatal]_vars

\* The same with a receiver installed and no failed send: this holds.
C19_WithReceiver == [][(cyc.receiver /\ cyc'.fails = 0) => (NonceEcho /\ MismatchNotFatal)]_vars

\* With a receiver installed, an ack with another nonce than the one sent was
\* compared and the call returned Ok.
C19_MismatchReached ==
    /\ cyc.receiver /\ cyc.result = "Ok" /\ cyc.pending = <<>>
    /\ cyc.compared = <<[ack |-> 2, expected |-> 1]>>

\* A second Heartbeat was sent while the first one was unanswered.
C19_SecondHeartbeatReached ==
    /\ Len(HeartbeatsIn(sent)) = 2 /\ cyc.pending /= <<>> /\ rx = <<>>
    /\ session[1].last_heartbeat_nonce = Some(cyc.pending[1])

\* C20: the period of the WebSocket heartbeat timer equals the
\* heartbeat_interval of the most recent Hello exactly, with no scaling or
\* offset applied.
C20_HeartbeatPeriodVerbatim ==
    (impl = "serenity" /\ session /= None /\ hello /= None) =>
        session[1].keepalive_timer = hello[1].heartbeat_interval

\* The interval handed to the Auxiliary loop by the other handshake is the
\* Hello's, unchanged: this holds.
C20_SetKeepaliveVerbatim ==
    (impl = "songbird" /\ hello /= None) =>
        \A i \in 1..Len(auxQ) :
            auxQ[i].tag = "SetKeepalive" => auxQ[i].interval = hello[1].heartbeat_interval

\* A handshake that got Hello{40} resolved to a Connection whose heartbeat
\* timer has a period of 30.
C20_ScaledReached ==
    /\ impl = "serenity" /\ session /= None /\ hello = Some([op |-> "Hello", heartbeat_interval |-> 40])
    /\ session[1].keepalive_timer = 30

\* What cycle makes of a queued status under the session key: "voice", "drop"
\* or "error" for a packet, "" for a WebSocket event.
OutcomeOf(status) ==
    IF status.tag = "Udp" THEN SvInbound(status.packet, session[1].key).outcome ELSE ""

\* The queued statuses that call for a receiver callback.
CallsFor(q) ==
    SelectSeq(q, LAMBDA status : OutcomeOf(status) = "voice"
                                 \/ (status.tag = "Websocket" /\ status.ev.op = "Speaking"))

\* A call of cycle with no failing send that finds a packet of the given
\* outcomes in the queue: the whole queue is processed, the receiver gets the
\* callbacks of the other statuses and no more, and the call goes on to the
\* mixing and returns Ok.
BadPacketSwallowed(outcomes) ==
    (/\ cyc'.ticks = cyc.ticks + 1 /\ cyc'.fails = cyc.fails
     /\ \E k \in 1..Len(rx) : OutcomeOf(rx[k]) \in outcomes)
        => /\ rx' = <<>>
           /\ cyc.receiver => Len(cyc'.delivered) = Len(CallsFor(rx))
           /\ cyc'.spoke /= <<>> /\ cyc'.result = "Ok"

\* C21: an inbound UDP packet that fails decryption, is too short to hold the
\* 12-byte header, or whose payload fails Opus parsing or decoding causes no
\* receiver callback and no error outcome: the remaining queued inbound events
\* are still processed, and in the same iteration the heartbeat check, mixing
\* and media transmission still take place.
C21_BadPacketSwallowed == [][BadPacketSwallowed({"drop", "error"})]_vars

\* The same for the packets that fail decryption alone, in a queue with no
\* unreadable packet: this holds.
C21_DecryptionFailureSwallowed ==
    [][(\A k \in 1..Len(rx) : OutcomeOf(rx[k]) /= "error") => BadPacketSwallowed({"drop"})]_vars

\* The statuses the call just made took off the queue.
TakenNow == SubSeq(rx, 1, Len(rx) - Len(rx'))

VoiceTakenNow == SelectSeq(TakenNow, LAMBDA status : OutcomeOf(status) = "voice")

VoiceCalls(d) == SelectSeq(d, LAMBDA call : call.call = "voice_packet")

\* The receive tasks queue at the end; cycle takes from the front, each status
\* once; with a receiver installed the voice_packet callbacks of a call are
\* those of the packets it took that open and decode, in queue order, each
\* with the fields found at bytes 2-3, 4-7 and 8-11 of its packet.
ArrivalOrderDelivery ==
    /\ (cyc'.ticks = cyc.ticks /\ rx' /= rx) => (Len(rx') = Len(rx) + 1 /\ SubSeq(rx', 1, Len(rx)) = rx)
    /\ cyc'.ticks = cyc.ticks + 1 =>
          /\ rx = TakenNow \o rx'
          /\ cyc.receiver =>
                /\ Len(VoiceCalls(cyc'.delivered)) = Len(VoiceTakenNow)
                /\ \A k \in 1..Len(VoiceTakenNow) :
                      LET head == VoiceTakenNow[k].packet.head
                          call == VoiceCalls(cyc'.delivered)[k]
                      IN /\ call.sequence = head[3] * 256 + head[4]
                         /\ call.timestamp = U32(head[5] * 256 + head[6], head[7] * 256 + head[8])
                         /\ call.ssrc = ((head[9] * 256 + head[10]) * 256 + head[11]) * 256 + head[12]

C23_PacketRoundTrip ==
    pkt.stage = "parsed" =>
        LET built == pkt.packet[1]
            parsed == pkt.parsed[1]
        IN /\ parsed.read
           /\ parsed.sequence = built.sequence
           /\ parsed.timestamp = built.timestamp
           /\ parsed.ssrc = built.ssrc
           /\ parsed.opened = Some(built.payload)
           /\ parsed.nonce = built.wire.box.nonce
           /\ Len(built.wire.head) = 12 /\ Len(parsed.nonce) = 24
           /\ \A i \in 1..24 : parsed.nonce[i] = IF i <= 12 THEN built.wire.head[i] ELSE 0

\* The packet with sequence 258, timestamp 960 * 258 and ssrc 0x01020304 that
\* carries an encoded mix was built and parsed back.
C23_Witness ==
    /\ pkt.stage = "parsed" /\ pkt.parsed[1].read
    /\ pkt.packet[1].wire.head = <<128, 120, 1, 2, 0, 3, 199, 128, 1, 2, 3, 4>>
    /\ pkt.parsed[1].sequence = 258 /\ pkt.parsed[1].timestamp = U32(3, 51072)
    /\ pkt.parsed[1].ssrc = 16909060
    /\ pkt.parsed[1].opened /= None /\ pkt.parsed[1].opened[1].frame = "encoded"
    /\ session[1].sequence = 259

\* C24: a UDP keepalive packet (SSRC only) is sent only when a full keepalive
\* interval has elapsed during which no media packet was transmitted: every
\* transmitted media packet restarts the keepalive interval, so a connection
\* that transmits media continuously sends no keepalive.
C24_KeepaliveOnlyWhenIdle ==
    \A k \in 1..Len(udpTx.out) :
        udpTx.out[k].kind = "Keepalive" =>
            \A j \in 1..(k - 1) :
                udpTx.out[j].kind = "Packet" => udpTx.out[j].at + UDP_KEEPALIVE_GAP <= udpTx.out[k].at

\* What does hold of the send task: the n-th keepalive is not sent before n
\* gaps have passed since the task started.
C24_KeepalivePeriodic ==
    \A k \in 1..Len(udpTx.out) :
        udpTx.out[k].kind = "Keepalive" =>
            udpTx.out[k].at >=
                UDP_KEEPALIVE_GAP * Cardinality({j \in 1..k : udpTx.out[j].kind = "Keepalive"})

\* The packets the send task handed to the socket, in order.
PacketsOut == SelectSeq(udpTx.out, LAMBDA m : m.kind = "Packet")

PoisonTaken ==
    /\ udpTx.before /= None
    /\ \A k \in 1..Len(udpTx.q) : udpTx.q[k].tag /= "Poison"

\* Packets leave in the order they were queued, none skipped; a task that has
\* taken the Poison has stopped, having sent exactly the packets queued
\* before it; a task that stopped on a closed queue has sent them all.
FifoUntilPoison ==
    /\ \A k \in 1..Len(PacketsOut) : PacketsOut[k].p = k
    /\ PoisonTaken => (~udpTx.running /\ Len(PacketsOut) = udpTx.before[1])
    /\ (~udpTx.running /\ ~PoisonTaken) => (udpTx.closed /\ Len(PacketsOut) = udpTx.enq)

\* C25: the UDP send task transmits queued packets in FIFO order; once a
\* Poison is enqueued (or the queue is closed) the task eventually terminates,
\* every packet enqueued before the Poison has been handed to the socket
\* before it exits, and after dequeuing the Poison it transmits nothing more
\* (no later packet and no keepalive).
C25_PoisonTermination ==
    /\ []FifoUntilPoison
    /\ [][~udpTx.running => udpTx'.out = udpTx.out]_vars
    /\ (udpTx.before /= None \/ udpTx.closed) ~> ~udpTx.running

\* The task stopped on the Poison after the one packet queued before it;
\* the packet queued behind the Poison stays in the queue while time passes.
C25_Witness ==
    /\ ~udpTx.running /\ udpTx.before = Some(1) /\ udpTx.enq = 2
    /\ Len(udpTx.out) = 1 /\ udpTx.out[1].kind = "Packet" /\ udpTx.out[1].p = 1
    /\ udpTx.q = <<[tag |-> "Packet", p |-> 2]>>
    /\ udpTx.now >= udpTx.ka_time

\* The step in which the Connection handle is dropped.
Dropped == session /= None /\ session' = None

\* A shutdown signal is put on a task's control channel.
ShutdownEmitted ==
    /\ Len(auxQ') > Len(auxQ) /\ auxQ'[Len(auxQ')].tag \in {"Poison", "Shutdown"}
    /\ Len(mixQ') > Len(mixQ) /\ mixQ'[Len(mixQ')].tag \in {"Poison", "Shutdown"}
    /\ \/ udpTx'.closed
       \/ Len(udpTx'.q) > Len(udpTx.q) /\ udpTx'.q[Len(udpTx'.q)].tag = "Poison"

\* C26: closing (dropping) the Connection handle emits a shutdown signal on
\* every control channel of the connection, and every long-lived task of that
\* connection (WebSocket listener, UDP listener, UDP sender, Auxiliary loop,
\* Mixer) eventually observes it and exits.
C26_DropShutsDown ==
    /\ [][Dropped => ShutdownEmitted]_vars
    /\ (session = None) ~> ~udpTx.running

\* What the drop does: it leaves every channel and every task as it was.
C26_DropChangesNothing ==
    [][Dropped => (auxQ' = auxQ /\ mixQ' = mixQ /\ udpTx' = udpTx /\ aux' = aux /\ mixer' = mixer)]_vars

\* The endpoint string with the 3-character suffix ":80" removed if it ends
\* with it, and as it is otherwise.
WithoutPort80(e) ==
    IF Len(e) >= 3 /\ e[Len(e) - 2] = ":" /\ e[Len(e) - 1] = "8" /\ e[Len(e)] = "0"
    THEN [i \in 1..(Len(e) - 3) |-> e[i]]
    ELSE e

\* C27: endpoint normalization: for every endpoint string, if it ends with
\* ":80" exactly that 3-character suffix is removed, otherwise the endpoint is
\* kept unchanged, and the WebSocket URL is wss://{endpoint}/?v={VERSION}; a
\* result that is not a valid URL yields EndpointUrl.
C27_EndpointNormalization ==
    [][(pc = "init" /\ pc' /= "init") =>
          /\ endpoint' = WithoutPort80(endpoint)
          /\ IF UrlParses(WithoutPort80(endpoint))
             THEN /\ wsUrl' = Some(<<"w", "s", "s", ":", "/", "/">> \o WithoutPort80(endpoint)
                                   \o <<"/", "?", "v", "=">> \o VOICE_GATEWAY_VERSION)
                  /\ err' /= "EndpointUrl"
             ELSE wsUrl' = None /\ err' = "EndpointUrl" /\ pc' = "failed"]_vars

\* "h:80:80" lost one ":80" and the WebSocket was opened to wss://h:80/?v=V.
C27_Witness ==
    /\ impl = "songbird" /\ pc = "hs_wait" /\ endpoint = <<"h", ":", "8", "0">>
    /\ wsUrl = Some(<<"w", "s", "s", ":", "/", "/", "h", ":", "8", "0", "/", "?", "v", "=", "V">>)

\* The events with the given op among those the Hello/Ready wait received.
ReceivedOf(op) == SelectSeq(rxLog, LAMBDA ev : ev.op = op)

\* C28: in the handshake accumulator neither the Hello field nor the Ready
\* field is overwritten once set: for every sequence of received events (e.g.
\* Ready, Ready', Hello), the value stored for each field when the wait
\* finishes is the first value received for it.
C28_FirstValueKept ==
    (hello /= None /\ ready /= None) =>
        /\ hello[1] = ReceivedOf("Hello")[1]
        /\ ready[1] = ReceivedOf("Ready")[1]

\* What holds instead: each field holds the last value received for it.
C28_LastValueKept ==
    /\ hello /= None => hello[1] = ReceivedOf("Hello")[Len(ReceivedOf("Hello"))]
    /\ ready /= None => ready[1] = ReceivedOf("Ready")[Len(ReceivedOf("Ready"))]

\* C29: in every reachable state of the mixer, from the initial state on,
\* silence_frames_remaining is between 0 and 5 inclusive; it is set to 5 by a
\* tick in which a source contributes and decremented by one on each tick
\* that emits a silence frame.
C29_SilenceFramesBounded ==
    session /= None => session[1].silence_frames \in 0..5

\* What holds instead: the counter starts at 100 and never grows beyond what
\* it was, or 5; a call of cycle that mixed samples sets it to 5, one that
\* mixed none decrements it until it is 0, and one that returned before the
\* mix leaves it alone.
C29_SilenceFramesStep ==
    /\ [](session /= None => session[1].silence_frames \in 0..100)
    /\ [](session /= None /\ ~cyc.fresh => session[1].silence_frames \in 0..5)
    /\ [][cyc'.ticks = cyc.ticks + 1 =>
            session'[1].silence_frames =
                IF cyc'.spoke = None THEN session[1].silence_frames
                ELSE IF cyc'.len > 0 THEN 5
                ELSE IF session[1].silence_frames > 0 THEN session[1].silence_frames - 1
                ELSE 0]_vars

\* The nonces of the HeartbeatAck events the call just made took off the
\* queue.
AckNoncesTaken == { AcksTaken(rx, rx')[k].ev.nonce : k \in 1..Len(AcksTaken(rx, rx')) }

\* The call just made got to its heartbeat: it sent one, or the send failed.
HeartbeatAttempted ==
    \/ HeartbeatsIn(SubSeq(sent', Len(sent) + 1, Len(sent'))) /= <<>>
    \/ cyc'.fails = cyc.fails + 1

\* A call that took no ack with the nonce n of the unanswered Heartbeat does
\* not leave last_heartbeat_nonce cleared: it is still Some(n), or the call
\* replaced it when it got to its own heartbeat.
ClearedOnlyOnMatch ==
    (/\ cyc'.ticks = cyc.ticks + 1
     /\ session[1].last_heartbeat_nonce /= None
     /\ session[1].last_heartbeat_nonce[1] \notin AckNoncesTaken) =>
        /\ session'[1].last_heartbeat_nonce /= None
        /\ ~HeartbeatAttempted => session'[1].last_heartbeat_nonce = session[1].last_heartbeat_nonce

\* A call made while last_heartbeat_nonce is None leaves it None unless it
\* gets to its own heartbeat.
AckWhileNone ==
    (/\ cyc'.ticks = cyc.ticks + 1
     /\ session[1].last_heartbeat_nonce = None
     /\ ~HeartbeatAttempted) =>
        session'[1].last_heartbeat_nonce = None

\* C30: last_heartbeat_nonce is cleared by a HeartbeatAck only when it is
\* Some(n) and the ack's nonce equals n; a HeartbeatAck with a different nonce
\* leaves last_heartbeat_nonce unchanged (still Some(n)), and an ack received
\* while it is None changes nothing.
C30_ClearedOnlyOnMatch == [][ClearedOnlyOnMatch /\ AckWhileNone]_vars

\* What holds instead: every HeartbeatAck handed to the receive loop while
\* last_heartbeat_nonce is Some(n) clears it, whatever nonce it carries; only
\* with no receiver installed, where the queue is discarded unread, does a
\* mismatched ack leave it alone.
C30_ClearedByAnyAck ==
    [][/\ AckWhileNone
       /\ ~cyc.receiver => ClearedOnlyOnMatch
       /\ (/\ cyc'.ticks = cyc.ticks + 1 /\ cyc.receiver
           /\ session[1].last_heartbeat_nonce /= None
           /\ AckNoncesTaken /= {}
           /\ ~HeartbeatAttempted) => session'[1].last_heartbeat_nonce = None]_vars

\* The ids the reads of the call just made were made on.
ReadIdsNow == { cyc'.reads[k].id : k \in 1..Len(cyc'.reads) }

\* The mix of the call just made is what its reads made of a zeroed mix
\* buffer, one after the other.
MixFromReads ==
    cyc'.spoke /= None =>
        IF cyc'.reads = <<>> THEN cyc'.mix = ZeroBuffer
        ELSE /\ cyc'.reads[1].before = ZeroBuffer
             /\ cyc'.reads[Len(cyc'.reads)].after = cyc'.mix
             /\ \A k \in 1..(Len(cyc'.reads) - 1) : cyc'.reads[k].after = cyc'.reads[k + 1].before

\* C31: a source whose handle has playing == false at a tick is not read in
\* that tick, contributes nothing to the mix, is not removed from the source
\* list, and its finished flag and position are left unchanged; the sources
\* after it in the list are still processed in that tick.
C31_PausedSourceSkipped ==
    [][cyc'.ticks = cyc.ticks + 1 =>
          /\ MixFromReads
          /\ \A k \in 1..Len(sources) :
                ~handles[sources[k]].playing =>
                    /\ sources[k] \notin ReadIdsNow
                    /\ \E j \in 1..Len(sources') : sources'[j] = sources[k]
                    /\ handles'[sources[k]] = handles[sources[k]]
                    /\ cyc'.spoke /= None =>
                          \A j \in (k + 1)..Len(sources) :
                              handles[sources[j]].playing => sources[j] \in ReadIdsNow]_vars

\* A call walked a list whose first source is paused and untouched and whose
\* second source was read.
C31_PausedThenRead ==
    /\ cyc.ticks > 0 /\ cyc.result = "Ok" /\ Len(sources) = 2
    /\ ~handles[sources[1]].playing /\ handles[sources[1]].frames = 0
    /\ handles[sources[1]].position = 0 /\ ~handles[sources[1]].finished
    /\ Len(cyc.reads) = 1 /\ cyc.reads[1].id = sources[2] /\ cyc.reads[1].read.some

\* The ids of the reads of the call just made, in the order they were made.
ReadOrderNow == [k \in 1..Len(cyc'.reads) |-> cyc'.reads[k].id]

\* The sources on the list that are playing.
PlayingSources == SelectSeq(sources, LAMBDA id : handles[id].playing)

\* C32: Play appends at the tail, and in every tick each source that is in the
\* list at the start of the tick is visited exactly once, in insertion order,
\* also when one or more sources are removed during that tick (a removal never
\* causes the following source to be skipped or visited twice).
C32_VisitedOnceInOrder ==
    /\ [](\A j, k \in 1..Len(sources) : j < k => sources[j] < sources[k])
    /\ [][/\ (cyc'.ticks = cyc.ticks /\ sources' /= sources) =>
                (sources' = Append(sources, Len(handles) + 1) /\ Len(handles') = Len(handles) + 1)
          /\ (cyc'.ticks = cyc.ticks + 1 /\ cyc'.spoke /= None) => (ReadOrderNow = PlayingSources)
          /\ (cyc'.ticks = cyc.ticks + 1 /\ cyc'.spoke = None) =>
                (cyc'.reads = <<>> /\ sources' = sources)]_vars

\* A call removed the first source of the list and read the one behind it.
C32_RemovalThenRead ==
    /\ cyc.result = "Ok" /\ Len(cyc.reads) = 2
    /\ ~cyc.reads[1].read.some /\ cyc.reads[2].read.some
    /\ cyc.reads[1].id < cyc.reads[2].id
    /\ handles[cyc.reads[1].id].finished /\ sources = <<cyc.reads[2].id>>

\* The offset reached from the given one by skipping left elements, each made
\* of one ID/length byte b followed by 1 + Nibble(b) data bytes; -1 when the
\* payload ends before.
RECURSIVE ElementsEnd(_, _, _, _)
ElementsEnd(d, offset, left, low) ==
    IF left = 0 THEN offset
    ELSE IF offset >= Len(d) THEN -1
    ELSE LET b == d[offset + 1]
         IN ElementsEnd(d, offset + 1 + 1 + (IF low THEN b % 16 ELSE b \div 16), left - 1, low)

\* The offset of the first non-zero byte at or behind the given one; -1 when
\* there is none.
RECURSIVE PaddingEnd(_, _)
PaddingEnd(d, offset) ==
    IF offset < 0 \/ offset >= Len(d) THEN -1
    ELSE IF d[offset + 1] /= 0 THEN offset
    ELSE PaddingEnd(d, offset + 1)

HasExtensionHeader(d) == Len(d) >= 4 /\ d[1] = 190 /\ d[2] = 222

\* The payload was handed to the decoder from the offset the rule gives,
\* whenever the rule gives one; a payload without the header went unchanged.
StrippedAsRuled(low) ==
    pkt.stage = "stripped" =>
        LET d == pkt.packet[1]
            r == pkt.parsed[1]
            to == PaddingEnd(d, ElementsEnd(d, 4, d[3] * 256 + d[4], low))
        IN IF HasExtensionHeader(d)
           THEN to >= 0 => (~r.panic /\ r.data = SubSeq(d, to + 1, Len(d)))
           ELSE (d[1] /= 190 \/ (Len(d) >= 2 /\ d[2] /= 222)) => (~r.panic /\ r.data = d)

\* C33: for a decrypted inbound payload that begins with 0xBE 0xDE and
\* declares L extensions (u16 BE at bytes 2-3), the Opus data handed to the
\* decoder starts at the offset reached by skipping, from offset 4, L
\* extensions each made of one ID/length byte b followed by 1 + (b & 0x0F)
\* data bytes, and then all following zero padding bytes; a payload that does
\* not begin with 0xBE 0xDE is handed over unchanged.
C33_ExtensionStrip == StrippedAsRuled(TRUE)

\* What holds instead for the payloads with no zero byte among the elements:
\* the data bytes of an element are counted by the high nibble, 1 + (b >> 4).
C33_HighNibble ==
    (pkt.stage = "stripped" /\ HasExtensionHeader(pkt.packet[1])
     /\ \A i \in 5..Len(pkt.packet[1]) : pkt.packet[1][i] /= 0)
        => StrippedAsRuled(FALSE)

\* The mix a read leaves behind when nothing but the samples its source
\* produced in that read is added: the n samples of a PCM frame, each at its
\* index (stereo) or at both channels (mono), times the volume; the decoded
\* frame of an Opus source; nothing for a read that returned None.
OwnContribution(r, aud) ==
    IF aud.kind = "Opus" THEN AddOpus(r.before, r.read, aud.volume)
    ELSE [i \in 1..STEREO_LEN |->
            LET j == IF aud.stereo THEN i - 1 ELSE (i - 1) \div 2
            IN r.before[i] + (IF r.read.some /\ j < r.read.n
                              THEN aud.volume * SampleAt(r.read, j) ELSE 0)]

\* Every read of the call just made, or every full PCM read of it, added its
\* own contribution and nothing else.
OnlyOwnSamples(fullPcmOnly) ==
    cyc'.ticks = cyc.ticks + 1 =>
        \A k \in 1..Len(cyc'.reads) :
            LET r == cyc'.reads[k]
                aud == handles[r.id]
                full == aud.kind = "Pcm" /\ r.read.some /\ r.read.n = r.buffer_len
            IN (fullPcmOnly => full) => r.after = OwnContribution(r, aud)

\* C34: in a mixer tick, the samples added to the mix on behalf of a source
\* are only samples that this source produced in this tick: a source whose
\* read returned None, an Opus-kind source, or a PCM source that returned
\* fewer samples than a full frame never causes samples left in the scratch
\* buffer by another source, by an earlier tick, or by inbound voice decoding
\* in the same iteration to be added to the outbound mix.
C34_OnlyOwnSamples == [][OnlyOwnSamples(FALSE)]_vars

\* What holds instead: a PCM source that returned a full frame adds its own
\* samples only, whatever the scratch buffer held.
C34_FullPcmOwnSamples == [][OnlyOwnSamples(TRUE)]_vars

\* The value of the last Speaking message in the log before index k; a
\* behaviour that starts from a speaking Connection starts after a
\* Speaking=true.
SpeakingBefore(k) ==
    LET at == {j \in 1..(k - 1) : sent[j].to = "ws" /\ sent[j].msg.op = "Speaking"}
    IN IF at = {} THEN ~cyc.fresh
       ELSE sent[CHOOSE j \in at : \A i \in at : i <= j].msg.speaking

\* Every media packet in the log follows a Speaking=true with no Speaking=false
\* in between.
MediaOnlyWhileSpeaking ==
    \A k \in 1..Len(sent) : (sent[k].to = "udp" /\ sent[k].kind = "Media") => SpeakingBefore(k)

\* C35: whenever a media packet (real or silence frame) is transmitted, the
\* most recent Speaking message sent by the mixer is Speaking=true:
\* Speaking=true is sent before the first packet of every talk spurt and no
\* media packet is transmitted between a Speaking=false and the following
\* Speaking=true.
C35_MediaOnlyWhileSpeaking == MediaOnlyWhileSpeaking

\* The same on behaviours in which no send failed: this holds.
C35_WithoutFailure == cyc.fails = 0 => MediaOnlyWhileSpeaking

\* The speaking flag is the value of the last Speaking message in the log.
FlagIsLastSent == session[1].speaking = SpeakingBefore(Len(sent) + 1)

\* C36: the mixer's local speaking flag always equals the value of the last
\* Speaking message that was successfully sent (false if none was): if
\* sending a Speaking message fails, the flag keeps its previous value, so a
\* later set_speaking with the same argument sends the message again.
C36_FlagIsLastSent == FlagIsLastSent

\* The same on behaviours in which no send failed: this holds.
C36_WithoutFailure == cyc.fails = 0 => FlagIsLastSent

\* A step that changes sequence or timestamp puts a media packet on the wire.
AdvanceOnlyWhenSent ==
    (session'[1].sequence /= session[1].sequence \/ session'[1].timestamp /= session[1].timestamp)
        => Len(MediaIn(sent')) = Len(MediaIn(sent)) + 1

\* The media packets on the wire carry consecutive sequence numbers.
NoSequenceGap ==
    \A k \in 1..(Len(MediaSent) - 1) :
        MediaSent[k + 1].sequence = WrappingAdd16(MediaSent[k].sequence, 1)

\* C37: sequence and rtp_timestamp advance only for packets actually handed
\* to the UDP socket: if a tick fails after the packet was prepared (the UDP
\* send returns an error), sequence and rtp_timestamp are unchanged, so the
\* packets that reach the wire carry consecutive sequence numbers with no gap.
C37_AdvanceOnlyWhenSent == [](NoSequenceGap) /\ [][AdvanceOnlyWhenSent]_vars

\* The same on behaviours in which no send failed: this holds.
C37_WithoutFailure ==
    [](cyc.fails = 0 => NoSequenceGap) /\ [][cyc'.fails = 0 => AdvanceOnlyWhenSent]_vars

\* A call that took an ack with the nonce of the unanswered Heartbeat off the
\* queue, and did not get to a heartbeat of its own, leaves
\* last_heartbeat_nonce cleared.
MatchingAckClears ==
    (/\ cyc'.ticks = cyc.ticks + 1
     /\ session[1].last_heartbeat_nonce /= None
     /\ session[1].last_heartbeat_nonce[1] \in AckNoncesTaken
     /\ ~HeartbeatAttempted) =>
        session'[1].last_heartbeat_nonce = None

\* C38: HeartbeatAck events are handled the same way whether or not an
\* application receiver is installed: with no receiver, an ack matching the
\* pending nonce still clears last_heartbeat_nonce.
C38_AckHandledWithoutReceiver == [][MatchingAckClears]_vars

\* With a receiver installed the matching ack clears the nonce: this holds.
C38_WithReceiver == [][cyc.receiver => MatchingAckClears]_vars

\* The encoder_stereo flag says what the encoder held was built with.
FlagMatchesEncoder == session[1].encoder_stereo <=> (session[1].encoder_channels = 2)

\* A call that replaced the encoder (the walk does so exactly when it flips
\* the flag, to the stereo output it assumes) found an encoder that was not
\* stereo.
ReplacedOnlyOnMismatch ==
    (session'[1].encoder_stereo /= session[1].encoder_stereo) => session[1].encoder_channels /= 2

\* Every encoded packet was made from as many samples as the encoder's
\* channels take for one frame.
EncodedSamplesMatch ==
    \A k \in 1..Len(MediaSent) :
        MediaSent[k].payload.frame = "encoded" =>
            Len(MediaSent[k].payload.samples) = MediaSent[k].payload.channels * SamplesPerChannel

\* C39: the encoder_stereo flag equals the channel configuration of the
\* encoder currently held by the Connection, the encoder is replaced only
\* when the output stereoness differs from its actual channel count, and the
\* number of samples passed to the encoder matches its channel count.
C39_EncoderFlagConsistent ==
    [](FlagMatchesEncoder /\ EncodedSamplesMatch) /\ [][ReplacedOnlyOnMismatch]_vars

\* What holds instead: once the flag is true the encoder is stereo, and every
\* frame that was encoded was taken at the encoder's width.
C39_ConsistentOnceSet ==
    [](session[1].encoder_stereo => FlagMatchesEncoder) /\ [](EncodedSamplesMatch)

\* The Auxiliary loop has been sent the message with this tag: it holds what
\* the message carries, or the message waits in its queue.
AuxHanded(tag) ==
    \/ \E i \in 1..Len(auxQ) : auxQ[i].tag = tag
    \/ tag = "UdpCipher" /\ aux.cipher /= None
    \/ tag = "SetKeepalive" /\ aux.heartbeat_interval /= None
    \/ tag = "SetSsrc" /\ aux.ssrc /= None
    \/ tag = "Udp" /\ aux.udp_rx /= None
    \/ tag = "Ws" /\ aux.ws /= None

AuxHandedAll == \A tag \in {"UdpCipher", "SetKeepalive", "SetSsrc", "Udp", "Ws"} : AuxHanded(tag)

\* Cipher, interval and SSRC are sent before the UDP receive half and the
\* WebSocket, and stand before them in the queue.
AuxSettingsFirst ==
    /\ (AuxHanded("Udp") \/ AuxHanded("Ws")) =>
          AuxHanded("UdpCipher") /\ AuxHanded("SetKeepalive") /\ AuxHanded("SetSsrc")
    /\ \A i, j \in 1..Len(auxQ) :
          (auxQ[i].tag \in {"UdpCipher", "SetKeepalive", "SetSsrc"} /\ auxQ[j].tag \in {"Udp", "Ws"}) => i < j

\* C40: on a successful new-session handshake the Auxiliary loop's queue
\* receives the cipher, the heartbeat interval and the SSRC before the UDP
\* receive half and the WebSocket handle, and the Mixer's SetConn is sent
\* after all five; so in every interleaving the Auxiliary loop never holds a
\* UDP receive half or WebSocket without holding the cipher and SSRC, and the
\* Mixer can transmit only after the Auxiliary loop was handed everything.
C40_HandoffOrder ==
    /\ AuxSettingsFirst
    /\ MixSent > 0 => AuxHandedAll
    /\ (aux.udp_rx /= None \/ aux.ws /= None) => (aux.cipher /= None /\ aux.ssrc /= None)
    /\ (mixer.conn /= None \/ mixOut /= <<>>) => AuxHandedAll

\* The Mixer has transmitted a media packet while the Auxiliary loop, which
\* holds the UDP receive half, has not yet taken the WebSocket.
C40_MixerAheadOfAux ==
    /\ pc = "done" /\ MediaPackets /= <<>>
    /\ aux.udp_rx /= None /\ aux.ws = None /\ auxQ /= <<>>
====
